---------------------------- MODULE Spec2Model ----------------------------
(***************************************************************************)
(* A model of the VAT statement analyser: the upload component            *)
(* (src/src/components/upload/FileUpload.tsx), the VAT library it links   *)
(* against (src/unnamed/part_004, lines 1-350: the only revision of       *)
(* lib/vat that exports every name FileUpload.tsx imports), the payload   *)
(* builder (src/unnamed/part_005) and the App state that receives the     *)
(* parsed operations (src/src/App.tsx).                                   *)
(*                                                                         *)
(* Conventions of the model                                                *)
(*  - A JavaScript number is a record [k, v]: k = "fin" is a finite value  *)
(*    of v thousandths (decimal fixed point, exact arithmetic), k = "big"  *)
(*    a finite value of magnitude above 1e9 with sign v, k = "inf" an      *)
(*    infinity with sign v, k = "nan" NaN.                                 *)
(*  - Strings are TLA+ strings over ASCII.  A Cyrillic word of the source  *)
(*    is written in Latin transliteration ("nds" for the VAT keyword,     *)
(*    "bez nds", "data provodki", "summa po debetu", ...).               *)
(*  - An instant is a number of thousandths of a day since                 *)
(*    1970-01-01T00:00Z; an ISO date string is the record of its instant.  *)
(*  - Binary floating-point representation error is not modelled: sums,   *)
(*    products and roundings are exact in decimal thousandths.             *)
(***************************************************************************)
EXTENDS Integers, Sequences, FiniteSets, TLC

VARIABLES
    error,       \* FileUpload: useState<string | null>(null)
    operations,  \* App: useState<Operation[]>([])
    reads,       \* FileReader objects whose read has not completed yet
    now,         \* the clock read by new Date() in validateOperation
    tz,          \* offset of the local time zone, in thousandths of a day
    last,        \* what the handler that ran last did (observation only)
    seen,        \* the first successful parse: file, clock and result (history)
    arg,         \* the argument a library function was called with on its own
    result       \* what that call returned

vars == <<error, operations, reads, now, tz, last, seen, arg, result>>

-----------------------------------------------------------------------------
(* Characters and strings                                                  *)

CharAt(s, i) == SubSeq(s, i, i)

DigitChars == {"0", "1", "2", "3", "4", "5", "6", "7", "8", "9"}

IsDigit(c) == c \in DigitChars

DigitVal(c) ==
    CASE c = "0" -> 0 [] c = "1" -> 1 [] c = "2" -> 2 [] c = "3" -> 3
      [] c = "4" -> 4 [] c = "5" -> 5 [] c = "6" -> 6 [] c = "7" -> 7
      [] c = "8" -> 8 [] c = "9" -> 9

\* \s of a JavaScript regular expression, and the characters trim() removes
SpaceChars == {" ", "\t", "\n", "\r"}

IsSpace(c) == c \in SpaceChars

UpperCase == "ABCDEFGHIJKLMNOPQRSTUVWXYZ"
LowerCase == "abcdefghijklmnopqrstuvwxyz"

RECURSIVE IndexIn(_, _, _)
\* position of character c in s at or after i, 0 when absent
IndexIn(c, s, i) ==
    IF i > Len(s) THEN 0
    ELSE IF CharAt(s, i) = c THEN i
    ELSE IndexIn(c, s, i + 1)

\* the lower-case letter of each upper-case letter
LowerOf == [c \in { CharAt(UpperCase, p) : p \in 1..Len(UpperCase) } |->
               CharAt(LowerCase, IndexIn(c, UpperCase, 1))]

LowerChar(c) == IF c \in DOMAIN LowerOf THEN LowerOf[c] ELSE c

RECURSIVE toLowerCase(_)
\* character by character; the string is halved to keep the evaluation shallow
toLowerCase(s) ==
    IF Len(s) <= 1 THEN LowerChar(s)
    ELSE LET Halves(h) ==
                 toLowerCase(SubSeq(s, 1, h)) \o toLowerCase(SubSeq(s, h + 1, Len(s)))
         IN  Halves(Len(s) \div 2)

RECURSIVE TrimStart(_)
TrimStart(s) ==
    IF s # "" /\ IsSpace(CharAt(s, 1)) THEN TrimStart(SubSeq(s, 2, Len(s)))
    ELSE s

RECURSIVE TrimEnd(_)
TrimEnd(s) ==
    IF s # "" /\ IsSpace(CharAt(s, Len(s))) THEN TrimEnd(SubSeq(s, 1, Len(s) - 1))
    ELSE s

trim(s) == TrimEnd(TrimStart(s))

RECURSIVE AllDigits(_)
AllDigits(s) ==
    s = "" \/ (IsDigit(CharAt(s, 1)) /\ AllDigits(SubSeq(s, 2, Len(s))))

RECURSIVE StartsWithAt(_, _, _)
\* s has p as a substring starting at position i
StartsWithAt(s, p, i) ==
    /\ i + Len(p) - 1 <= Len(s)
    /\ SubSeq(s, i, i + Len(p) - 1) = p

\* the first position at or after i where s has the substring p, 0 when none
indexOfFrom(s, p, i) ==
    LET First(hits) ==
            IF hits = {} THEN 0 ELSE CHOOSE j \in hits : \A k \in hits : j <= k
    IN  First({ j \in i..(Len(s) - Len(p) + 1) : StartsWithAt(s, p, j) })

\* String.prototype.indexOf, 1-based; 0 stands for -1
indexOf(s, p) == indexOfFrom(s, p, 1)

includes(s, p) == indexOf(s, p) # 0

RECURSIVE RemoveSpaces(_)
\* replace(/\s+/g, '')
RemoveSpaces(s) ==
    IF s = "" THEN ""
    ELSE (IF IsSpace(CharAt(s, 1)) THEN "" ELSE CharAt(s, 1))
             \o RemoveSpaces(SubSeq(s, 2, Len(s)))

RECURSIVE ReplaceAllIn(_, _, _)
\* every character of s that is in the set cs replaced by the string r
ReplaceAllIn(s, cs, r) ==
    IF s = "" THEN ""
    ELSE (IF CharAt(s, 1) \in cs THEN r ELSE CharAt(s, 1))
             \o ReplaceAllIn(SubSeq(s, 2, Len(s)), cs, r)

\* String.prototype.replace(c, r) with a string pattern: the first occurrence only
ReplaceFirst(s, c, r) ==
    LET p == indexOf(s, c)
    IN  IF p = 0 THEN s
        ELSE SubSeq(s, 1, p - 1) \o r \o SubSeq(s, p + Len(c), Len(s))

\* length of the longest run of digits of s that starts at position i
RECURSIVE DigitRun(_, _)
DigitRun(s, i) ==
    IF i <= Len(s) /\ IsDigit(CharAt(s, i)) THEN 1 + DigitRun(s, i + 1) ELSE 0

-----------------------------------------------------------------------------
(* JavaScript numbers                                                      *)

Fin(v) == [k |-> "fin", v |-> v]
NaN == [k |-> "nan", v |-> 0]
Inf(sgn) == [k |-> "inf", v |-> sgn]
Big(sgn) == [k |-> "big", v |-> sgn]
Zero == Fin(0)

isFinite(n) == n.k \in {"fin", "big"}
isNaN(n) == n.k = "nan"

\* n > 0, n < 0, n === 0 (every comparison with NaN is false)
Gt0(n) == n.k # "nan" /\ n.v > 0
Lt0(n) == n.k # "nan" /\ n.v < 0
Eq0(n) == n.k = "fin" /\ n.v = 0

\* ToBoolean of a number: 0 and NaN are falsy
Truthy(n) == ~(Eq0(n) \/ isNaN(n))

AbsInt(i) == IF i < 0 THEN -i ELSE i

\* Math.abs left out: the value passes with its sign
absOmitted(n) == n

abs(n) == IF n.k = "nan" THEN n ELSE [n EXCEPT !.v = AbsInt(n.v)]
neg(n) == IF n.k = "nan" THEN n ELSE [n EXCEPT !.v = -n.v]

\* a > b for the values the code compares
Gt(a, b) ==
    CASE a.k = "nan" \/ b.k = "nan" -> FALSE
      [] a.k = "fin" /\ b.k = "fin" -> a.v > b.v
      [] a.k = "inf" /\ b.k = "inf" -> a.v > b.v
      [] a.k = "inf" -> a.v > 0
      [] b.k = "inf" -> b.v < 0
      [] a.k = "big" /\ b.k = "big" -> a.v > b.v
      [] a.k = "big" -> a.v > 0
      [] OTHER -> b.v < 0

\* a + b; the sum of two finite values of opposite sign beyond 1e9 is not
\* determined by the model's "big" and is taken as NaN-free only by its sign
Add(a, b) ==
    CASE a.k = "nan" \/ b.k = "nan" -> NaN
      [] a.k = "inf" /\ b.k = "inf" -> IF a.v = b.v THEN a ELSE NaN
      [] a.k = "inf" -> a
      [] b.k = "inf" -> b
      [] a.k = "big" -> a
      [] b.k = "big" -> b
      [] OTHER -> Fin(a.v + b.v)

Sub(a, b) == Add(a, neg(b))

\* Math.round(x * 100) / 100 of a finite value: to the nearest hundredth,
\* a half rounding towards +Infinity
Round2Int(v) == ((v + 5) \div 10) * 10

Round2(n) == IF n.k = "fin" THEN Fin(Round2Int(n.v)) ELSE n

\* Math.round(a * r * 100) / 100 for a >= 0 and a rate r >= 0: the product is
\* rounded once, from its exact value
MulRound2(a, r) ==
    CASE a.k = "nan" \/ r.k = "nan" -> NaN
      [] Eq0(a) \/ Eq0(r) -> IF a.k = "inf" \/ r.k = "inf" THEN NaN ELSE Zero
      [] a.k = "inf" \/ r.k = "inf" -> Inf(1)
      [] a.k = "big" \/ r.k = "big" -> Big(1)
      [] OTHER ->
           \* a.v * r.v is in millionths; q and m split a.v to keep the product small
           LET q == a.v \div 10000
               m == a.v % 10000
           IN  Fin((q * r.v + (m * r.v + 5000) \div 10000) * 10)

\* n / 100
Div100(n) == IF n.k = "fin" THEN Fin(n.v \div 100) ELSE n

RECURSIVE DigitsVal(_)
\* value of a string of decimal digits
DigitsVal(s) ==
    IF s = "" THEN 0
    ELSE DigitsVal(SubSeq(s, 1, Len(s) - 1)) * 10 + DigitVal(CharAt(s, Len(s)))

RECURSIVE StripZeros(_)
StripZeros(s) ==
    IF s # "" /\ CharAt(s, 1) = "0" THEN StripZeros(SubSeq(s, 2, Len(s))) ELSE s

\* the first three digits of a fraction, as thousandths
Frac3(f) == DigitsVal(SubSeq(f \o "000", 1, 3))

\* StrDecimalLiteral without exponent: digits, optionally "." and digits
UnsignedDecimal(b) ==
    LET Parts(ip, fp) ==
            IF b = "" \/ b = "." \/ ~AllDigits(ip) \/ ~AllDigits(fp) THEN NaN
            ELSE IF Len(StripZeros(ip)) >= 10 THEN Big(1)
            ELSE Fin(DigitsVal(ip) * 1000 + Frac3(fp))
        SplitAt(p) == Parts(IF p = 0 THEN b ELSE SubSeq(b, 1, p - 1),
                            IF p = 0 THEN "" ELSE SubSeq(b, p + 1, Len(b)))
    IN  SplitAt(indexOf(b, "."))

\* Number(s) for a string s (ToNumber applied to a String); literals with an
\* exponent or a radix prefix are outside the model's strings
StringToNumber(s) ==
    LET WithSign(c, n) == IF c = "-" THEN neg(n) ELSE n
        Signed(c, b) ==
            IF b = "Infinity" THEN Inf(IF c = "-" THEN -1 ELSE 1)
            ELSE WithSign(c, UnsignedDecimal(b))
        Trimmed(t) ==
            IF t = "" THEN Zero
            ELSE Signed(CharAt(t, 1),
                        IF CharAt(t, 1) \in {"+", "-"} THEN SubSeq(t, 2, Len(t)) ELSE t)
    IN  Trimmed(trim(s))

RECURSIVE IntToString(_)
IntToString(i) ==
    IF i < 10 THEN CharAt("0123456789", i + 1)
    ELSE IntToString(i \div 10) \o CharAt("0123456789", (i % 10) + 1)

RECURSIVE DropTrailingZeros(_)
DropTrailingZeros(s) ==
    IF s # "" /\ CharAt(s, Len(s)) = "0"
    THEN DropTrailingZeros(SubSeq(s, 1, Len(s) - 1)) ELSE s

\* String(n) for a number n; a "big" value prints as 1e12
NumberToString(n) ==
    CASE n.k = "nan" -> "NaN"
      [] n.k = "inf" -> IF n.v < 0 THEN "-Infinity" ELSE "Infinity"
      [] n.k = "big" -> IF n.v < 0 THEN "-1000000000000" ELSE "1000000000000"
      [] OTHER ->
           LET a == AbsInt(n.v)
               f == DropTrailingZeros(SubSeq(IntToString(1000 + (a % 1000)), 2, 4))
           IN  (IF n.v < 0 THEN "-" ELSE "") \o IntToString(a \div 1000)
                   \o (IF f = "" THEN "" ELSE "." \o f)

-----------------------------------------------------------------------------
(* Cells of a sheet: what XLSX.utils.sheet_to_json(sheet, {header: 1})      *)
(* delivers is a number, a string or a hole (undefined)                    *)

Undefined == [t |-> "undefined", num |-> NaN, str |-> ""]
NumCell(n) == [t |-> "number", num |-> n, str |-> ""]
StrCell(s) == [t |-> "string", num |-> NaN, str |-> s]

\* Number(x)
CellNumber(x) ==
    CASE x.t = "undefined" -> NaN
      [] x.t = "number" -> x.num
      [] OTHER -> StringToNumber(x.str)

\* String(x)
CellString(x) ==
    CASE x.t = "undefined" -> "undefined"
      [] x.t = "number" -> NumberToString(x.num)
      [] OTHER -> x.str

\* ToBoolean(x), as the || operator applies it
CellTruthy(x) ==
    CASE x.t = "undefined" -> FALSE
      [] x.t = "number" -> Truthy(x.num)
      [] OTHER -> x.str # ""

-----------------------------------------------------------------------------
(* lib/vat: helpers for Sber-style VAT parsing                             *)

\* 'без ндс', 'ндс не облагается', 'ндс не предусмотрен', 'ндс не взимается',
\* 'ндс нет', 'без налога (ндс)', 'ндс не облагается'
ZERO_VAT_PHRASES ==
    << "bez nds", "nds ne oblagaetsya", "nds ne predusmotren", "nds ne vzimaetsya",
       "nds net", "bez naloga (nds)", "nds ne oblagaetsya" >>

\* the phrases looked for in the text as written, without toLowerCase()
hasZeroVatCaseSensitive(text) ==
    \E i \in 1..Len(ZERO_VAT_PHRASES) : includes(text, ZERO_VAT_PHRASES[i])

hasZeroVat(text) ==
    LET t == toLowerCase(text)
    IN  \E i \in 1..Len(ZERO_VAT_PHRASES) : includes(t, ZERO_VAT_PHRASES[i])

\* the value null of "number | null"
NullNum == [k |-> "null", v |-> 0]

normalizeRussianNumber(raw) ==
    LET cleaned == ReplaceAllIn(RemoveSpaces(raw), {"-", ","}, ".")
        Checked(n) == IF isFinite(n) THEN n ELSE NullNum
    IN  Checked(StringToNumber(cleaned))

\* the window of characters after the keyword that extractVatFromDescription scans
window == 120

\* position after the longest run of [\d\s] characters of s that starts at i
RECURSIVE RunEnd(_, _)
RunEnd(s, i) ==
    IF i <= Len(s) /\ (IsDigit(CharAt(s, i)) \/ IsSpace(CharAt(s, i)))
    THEN RunEnd(s, i + 1) ELSE i

\* /(\d[\d\s]*[.,-]\d{2})/ matched at position i of s: the position of the
\* separator, 0 when there is no match at i.  [\d\s]* and [.,-] share no
\* character, so only the longest run can be followed by the separator.
TokenAt(s, i) ==
    IF i > Len(s) \/ ~IsDigit(CharAt(s, i)) THEN 0
    ELSE LET Separator(e) ==
                 IF /\ e + 2 <= Len(s)
                    /\ CharAt(s, e) \in {".", ",", "-"}
                    /\ IsDigit(CharAt(s, e + 1))
                    /\ IsDigit(CharAt(s, e + 2))
                 THEN e ELSE 0
         IN  Separator(RunEnd(s, i + 1))

\* /^\d{4}-\d{2}$/
LooksLikeYearMonth(t) ==
    /\ Len(t) = 7
    /\ AllDigits(SubSeq(t, 1, 4))
    /\ CharAt(t, 5) = "-"
    /\ AllDigits(SubSeq(t, 6, 7))

\* the while loop over re.exec(tail): the candidates pushed from position i on,
\* appended to acc
RECURSIVE Candidates(_, _, _)
Candidates(tail, i, acc) ==
    LET Matched(d, e) ==
            IF e = 0 THEN Candidates(tail, d + 1, acc)
            ELSE LET token == SubSeq(tail, d, e + 2)
                     noSpaces == RemoveSpaces(token)
                     afterChar == IF e + 3 <= Len(tail) THEN CharAt(tail, e + 3) ELSE ""
                 IN  Candidates(tail, e + 3,
                                IF LooksLikeYearMonth(noSpaces) /\ afterChar = "-"
                                THEN acc ELSE Append(acc, token))
        \* a match starts with a digit: d is the next digit at or after i
        FromDigit(d) == IF d = 0 THEN acc ELSE Matched(d, TokenAt(tail, d))
        First(digits) ==
            IF digits = {} THEN 0 ELSE CHOOSE j \in digits : \A k \in digits : j <= k
    IN  FromDigit(First({ j \in i..Len(tail) : IsDigit(CharAt(tail, j)) }))

MinInt(a, b) == IF a < b THEN a ELSE b

\* the whole description scanned for tokens, whatever the keyword and the window
extractVatAnywhere(description) ==
    IF description = "" THEN Zero
    ELSE IF hasZeroVat(description) THEN Zero
    ELSE LET Value(value) == IF value = NullNum THEN Zero ELSE value
             Last(candidates) ==
                 IF Len(candidates) = 0 THEN Zero
                 ELSE Value(normalizeRussianNumber(candidates[Len(candidates)]))
         IN  Last(Candidates(description, 1, << >>))

\* extractVatFromDescription(description) for a string description
extractVatFromDescription(description) ==
    IF description = "" THEN Zero
    ELSE IF hasZeroVat(description) THEN Zero
    ELSE LET text == description
             Value(value) == IF value = NullNum THEN Zero ELSE value
             Last(candidates) ==
                 IF Len(candidates) = 0 THEN Zero
                 ELSE Value(normalizeRussianNumber(candidates[Len(candidates)]))
             After(m) ==
                 IF m = 0 THEN Zero
                 ELSE Last(Candidates(SubSeq(text, m + 3, MinInt(Len(text), m + 2 + window)),
                                      1, << >>))
         IN  After(indexOf(toLowerCase(text), "nds"))

-----------------------------------------------------------------------------
(* lib/vat: VAT rate normalization                                         *)

One == Fin(1000)

RateOfNumber(n) ==
    IF ~isFinite(n) \/ Lt0(n) THEN Zero
    ELSE IF Gt(n, One) THEN Div100(n)
    ELSE n

\* the rate taken as Number(raw) alone, without the branch for strings
normalizeVatRateByNumber(raw) == RateOfNumber(CellNumber(raw))

\* normalizeVatRate(raw) for a cell value raw (unknown)
normalizeVatRate(raw) ==
    CASE raw.t = "undefined" -> Zero
      [] raw.t = "string" ->
           LET Rate(trimmed) ==
                   IF trimmed = "" THEN Zero
                   ELSE RateOfNumber(StringToNumber(
                            ReplaceFirst(ReplaceFirst(trimmed, "%", ""), ",", ".")))
           IN  Rate(trim(raw.str))
      [] OTHER -> RateOfNumber(raw.num)

-----------------------------------------------------------------------------
(* lib/vat: VAT amount calculation                                         *)

computeVatAmount(amount, vatRate, existing) ==
    LET \* 1) a numeric VAT passed by the caller
        tier1 == existing.t = "number" /\ isFinite(existing.num) /\ ~Eq0(existing.num)
        \* 2) a string passed by the caller
        isText == existing.t = "string" /\ trim(existing.str) # ""
        FromText(fromDesc, candidate) ==
            IF Gt0(fromDesc) THEN fromDesc
            ELSE IF candidate # NullNum /\ ~Eq0(candidate) THEN abs(candidate)
            ELSE NullNum
        passed ==
            IF tier1 THEN abs(existing.num)
            ELSE IF isText
            THEN FromText(IF includes(toLowerCase(existing.str), "nds")
                          THEN extractVatFromDescription(existing.str) ELSE Zero,
                          normalizeRussianNumber(existing.str))
            ELSE NullNum
        \* 3) the fallback |amount| * rate
        Resolved(found, rate) ==
            IF found # NullNum THEN found
            ELSE IF ~Gt0(rate) THEN Zero
            ELSE MulRound2(abs(amount), rate)
    IN  Resolved(passed, normalizeVatRate(NumCell(vatRate)))

-----------------------------------------------------------------------------
(* Dates: ECMAScript Date in thousandths of a day                          *)

\* MakeDay for the proleptic Gregorian calendar: the day number of y-m-d
\* (month m in 1..12), day 0 being 1970-01-01
DaysFromCivil(y, m, d) ==
    LET yy  == IF m <= 2 THEN y - 1 ELSE y
        era == yy \div 400
        yoe == yy - era * 400
        mp  == IF m > 2 THEN m - 3 ELSE m + 9
        doy == (153 * mp + 2) \div 5 + d - 1
        doe == yoe * 365 + yoe \div 4 - yoe \div 100 + doy
    IN  era * 146097 + doe - 719468

\* the calendar date of day number z: [y, m, d]
CivilFromDays(z) ==
    LET OfMonth(era, yoe, doy, mp) ==
            [y |-> yoe + era * 400 + (IF mp >= 10 THEN 1 ELSE 0),
             m |-> IF mp < 10 THEN mp + 3 ELSE mp - 9,
             d |-> doy - (153 * mp + 2) \div 5 + 1]
        OfDayOfYear(era, yoe, doy) == OfMonth(era, yoe, doy, (5 * doy + 2) \div 153)
        OfYearOfEra(era, doe, yoe) ==
            OfDayOfYear(era, yoe, doe - (365 * yoe + yoe \div 4 - yoe \div 100))
        OfDayOfEra(era, doe) ==
            OfYearOfEra(era, doe,
                        (doe - doe \div 1460 + doe \div 36524 - doe \div 146096) \div 365)
        OfEra(zz, era) == OfDayOfEra(era, zz - era * 146097)
    IN  OfEra(z + 719468, (z + 719468) \div 146097)

\* new Date(year, monthIndex, day).getTime(): local midnight; a monthIndex or
\* day out of range carries over, a year 0..99 means 1900 + year
LocalDate(year, monthIndex, day, zone) ==
    LET y0 == IF year >= 0 /\ year <= 99 THEN 1900 + year ELSE year
        ym == y0 + monthIndex \div 12
        mn == monthIndex % 12
    IN  (DaysFromCivil(ym, mn + 1, 1) + day - 1) * 1000 - zone

\* Date.prototype.getFullYear / getMonth() + 1 of the instant t, in local time
LocalCivil(t, zone) == CivilFromDays((t + zone) \div 1000)
getFullYear(t, zone) == LocalCivil(t, zone).y

\* the strings of Operation.date: '' or the toISOString() of an instant;
\* RangeError is what toISOString() throws for an invalid Date
EmptyDate == [k |-> "empty", t |-> 0]
IsoDate(t) == [k |-> "iso", t |-> t]
RangeError == [k |-> "throw", t |-> 0]

DaysInMonth(y, m) == DaysFromCivil(y + m \div 12, (m % 12) + 1, 1) - DaysFromCivil(y, m, 1)

\* Date.parse(str) of a raw cell string: the date-only ISO form YYYY-MM-DD is
\* UTC midnight; [ok |-> FALSE] is NaN.  Other forms are implementation-defined.
DateParse(str) ==
    IF /\ Len(str) = 10
       /\ AllDigits(SubSeq(str, 1, 4)) /\ CharAt(str, 5) = "-"
       /\ AllDigits(SubSeq(str, 6, 7)) /\ CharAt(str, 8) = "-"
       /\ AllDigits(SubSeq(str, 9, 10))
    THEN LET Ymd(y, m, d) ==
                 IF m >= 1 /\ m <= 12 /\ d >= 1 /\ d <= DaysInMonth(y, m)
                 THEN [ok |-> TRUE, t |-> DaysFromCivil(y, m, d) * 1000]
                 ELSE [ok |-> FALSE, t |-> 0]
         IN  Ymd(DigitsVal(SubSeq(str, 1, 4)), DigitsVal(SubSeq(str, 6, 7)),
                 DigitsVal(SubSeq(str, 9, 10)))
    ELSE [ok |-> FALSE, t |-> 0]

\* three runs of digits separated by one character of seps each, the whole
\* string: the lengths of the runs, << >> when the string has another shape.
\* closer is a set of characters of which one may follow the third run.
ThreeRuns(str, seps1, seps2, closer) ==
    LET Runs(a, b, c) ==
            IF /\ a > 0 /\ b > 0 /\ c > 0
               /\ CharAt(str, a + 1) \in seps1
               /\ CharAt(str, a + b + 2) \in seps2
               /\ \/ Len(str) = a + b + c + 2
                  \/ Len(str) = a + b + c + 3 /\ CharAt(str, a + b + c + 3) \in closer
            THEN << a, b, c >> ELSE << >>
        Second(a, b) == Runs(a, b, DigitRun(str, a + b + 3))
        First(a) == Second(a, DigitRun(str, a + 2))
    IN  First(DigitRun(str, 1))

\* normalizeDate(value) of FileUpload.tsx for a cell value; the characters
\* "Y", "M", "D" of a raw date stand for the signs of year, month and day of
\* the Japanese formats
normalizeDate(value, zone) ==
    IF value.t = "undefined" THEN EmptyDate
    ELSE IF value.t = "number" /\ isFinite(value.num) THEN
        \* excelEpoch.getTime() + value * msPerDay; beyond 1e8 days the Date is invalid
        IF value.num.k = "big" THEN RangeError
        ELSE IsoDate(LocalDate(1899, 11, 30, zone) + value.num.v)
    ELSE
        LET Local(year, month, day) == IsoDate(LocalDate(year, month - 1, day, zone))
            Parsed(parsed) == IF parsed.ok THEN IsoDate(parsed.t) ELSE EmptyDate
            Shaped(str, ru, jp) ==
                IF ru # << >> /\ ru[1] <= 2 /\ ru[2] <= 2 /\ ru[3] >= 2 /\ ru[3] <= 4 THEN
                    LET day == DigitsVal(SubSeq(str, 1, ru[1]))
                        month == DigitsVal(SubSeq(str, ru[1] + 2, ru[1] + ru[2] + 1))
                        year == DigitsVal(SubSeq(str, ru[1] + ru[2] + 3, Len(str)))
                        fullYear == IF ru[3] = 2 THEN 2000 + year ELSE year
                    IN  Local(fullYear, month, day)
                ELSE IF jp # << >> /\ jp[1] = 4 /\ jp[2] <= 2 /\ jp[3] <= 2 THEN
                    LET year == DigitsVal(SubSeq(str, 1, 4))
                        month == DigitsVal(SubSeq(str, 6, 5 + jp[2]))
                        day == DigitsVal(SubSeq(str, 7 + jp[2], 6 + jp[2] + jp[3]))
                    IN  Local(year, month, day)
                ELSE Parsed(DateParse(str))
            OfString(str) ==
                Shaped(str, ThreeRuns(str, {".", "/"}, {".", "/"}, {}),
                            ThreeRuns(str, {"/", "Y"}, {"/", "M"}, {"D"}))
        IN  OfString(trim(CellString(value)))

-----------------------------------------------------------------------------
(* lib/vat: validation                                                     *)

\* the messages validateOperation pushes, transliterated
ErrDateInvalid == "Nekorrektnaya ili pustaya data"
ErrDateFuture == "Data ne mozhet byt v budushchem"
ErrDateOld == "Data slishkom staraya (do 2000 goda)"
ErrAmountNaN == "Summa ne yavlyaetsya chislom"
ErrAmountZero == "Summa ne mozhet byt nulevoj"
ErrAmountHuge == "Summa vyglyadit nerealistichno bolshoj"
ErrRate == "Stavka NDS dolzhna byt v diapazone ot 0 do 100%"
ErrVatNaN == "Summa NDS ne yavlyaetsya chislom"
ErrVatNegative == "Summa NDS ne mozhet byt otricatelnoj"
ErrNoCounterparty == "Kontragent ne ukazan"
ErrCounterpartyShort == "Naimenovanie kontragenta slishkom korotkoe"
ErrCounterpartyLong == "Naimenovanie kontragenta slishkom dlinnoe"
ErrCounterpartyDigits == "Naimenovanie kontragenta ne mozhet sostoyat tolko iz cifr"

\* the date validation with "too old" taken relative to the clock: more than
\* 24 years before the current year
DateErrorsByAge(date, clock, zone) ==
    IF date.k # "iso" THEN << ErrDateInvalid >>
    ELSE (IF date.t > clock THEN << ErrDateFuture >> ELSE << >>)
         \o (IF getFullYear(date.t, zone) < getFullYear(clock, zone) - 24
             THEN << ErrDateOld >> ELSE << >>)

\* the date validation of validateOperation for op.date = date, new Date() = clock
DateErrors(date, clock, zone) ==
    IF date.k # "iso" THEN << ErrDateInvalid >>
    ELSE (IF date.t > clock THEN << ErrDateFuture >> ELSE << >>)
         \o (IF getFullYear(date.t, zone) < 2000 THEN << ErrDateOld >> ELSE << >>)

\* a validation that also normalizes the amount to its absolute value
validateOperationNormalizingAmount(op, clock, zone) ==
    [errors |-> DateErrors(op.date, clock, zone),
     op |-> [op EXCEPT !.amount = abs(op.amount)]]

\* validateOperation(op) at clock reading clock: [errors, op], op being the
\* operation as the function leaves it (it assigns vat_rate and vat_amount)
validateOperation(op, clock, zone) ==
    LET dateErrors == DateErrors(op.date, clock, zone)
        amountErrors ==
            IF ~isFinite(op.amount) THEN << ErrAmountNaN >>
            ELSE IF Eq0(op.amount) THEN << ErrAmountZero >>
            ELSE IF op.amount.k = "big" THEN << ErrAmountHuge >>
            ELSE << >>
        vatNaN == ~isFinite(op.vat_amount)
        \* the VAT amount, given the rate the function has assigned to op.vat_rate
        VatChecked(rateErrors, vat_rate) ==
            [rateErrors |-> rateErrors,
             vat_rate |-> vat_rate,
             vatErrors |->
                 IF vatNaN
                 THEN (IF Truthy(vat_rate) /\ Gt0(vat_rate) THEN << ErrVatNaN >> ELSE << >>)
                 ELSE IF Lt0(op.vat_amount) THEN << ErrVatNegative >>
                 ELSE << >>,
             vat_amount |->
                 IF vatNaN /\ ~(Truthy(vat_rate) /\ Gt0(vat_rate)) THEN Zero
                 ELSE op.vat_amount]
        RateChecked(normalizedRate) ==
            IF Lt0(normalizedRate) \/ Gt(normalizedRate, One)
            THEN VatChecked(<< ErrRate >>, op.vat_rate)
            ELSE VatChecked(<< >>, normalizedRate)
        Assembled(dates, counterpartyErrs, r) ==
            [errors |-> dates \o amountErrors \o r.rateErrors \o r.vatErrors
                            \o counterpartyErrs,
             op |-> [op EXCEPT !.vat_rate = r.vat_rate, !.vat_amount = r.vat_amount]]
        counterpartyErrors ==
            IF op.counterparty = "" THEN << ErrNoCounterparty >>
            ELSE IF Len(op.counterparty) < 2 THEN << ErrCounterpartyShort >>
            ELSE IF Len(op.counterparty) > 200 THEN << ErrCounterpartyLong >>
            ELSE IF AllDigits(op.counterparty) THEN << ErrCounterpartyDigits >>
            ELSE << >>
    IN  Assembled(dateErrors, counterpartyErrors,
                  RateChecked(normalizeVatRate(NumCell(op.vat_rate))))

-----------------------------------------------------------------------------
(* lib/vat: totals and summary                                             *)

\* the filter of calculateTotals left out: every operation counts
IsValidAlways(op) == TRUE

\* !op.errors || op.errors.length === 0
IsValid(op) == Len(op.errors) = 0

\* the callback of validOperations.reduce in calculateTotals
TotalsStep(acc, op) ==
    IF ~Truthy(op.vat_amount) THEN acc
    ELSE IF op.direction = "input"
         THEN [acc EXCEPT !.input_vat = Add(acc.input_vat, abs(op.vat_amount))]
         ELSE [acc EXCEPT !.output_vat = Add(acc.output_vat, abs(op.vat_amount))]

RECURSIVE TotalsReduce(_, _, _)
TotalsReduce(ops, i, acc) ==
    IF i > Len(ops) THEN acc
    ELSE TotalsReduce(ops, i + 1, IF IsValid(ops[i]) THEN TotalsStep(acc, ops[i]) ELSE acc)

calculateTotals(ops) ==
    LET Rounded(sums) ==
            [input_vat |-> Round2(sums.input_vat),
             output_vat |-> Round2(sums.output_vat),
             net_vat |-> Round2(Sub(sums.output_vat, sums.input_vat))]
    IN  Rounded(TotalsReduce(ops, 1,
                             [input_vat |-> Zero, output_vat |-> Zero, net_vat |-> Zero]))

\* the summary with net_vat passed as the amount, sign included
getVatSummarySigned(totals) ==
    [amount |-> totals.net_vat,
     type |-> IF Lt0(totals.net_vat) THEN "refund" ELSE "payment"]

getVatSummary(totals) ==
    IF Gt0(totals.net_vat) THEN [amount |-> totals.net_vat, type |-> "payment"]
    ELSE IF Lt0(totals.net_vat) THEN [amount |-> abs(totals.net_vat), type |-> "refund"]
    ELSE [amount |-> Zero, type |-> "payment"]

-----------------------------------------------------------------------------
(* lib/vat (src/unnamed/part_005): the payload for consumers               *)

\* the callback of operations.reduce in buildVatPayload
PayloadStep(acc, op) ==
    LET Net(a) == [a EXCEPT !.net_vat = Sub(a.output_vat, a.input_vat)]
    IN  Net(IF op.direction = "input"
            THEN [acc EXCEPT !.input_vat = Add(acc.input_vat, op.vat_amount)]
            ELSE [acc EXCEPT !.output_vat = Add(acc.output_vat, op.vat_amount)])

RECURSIVE PayloadReduce(_, _, _)
PayloadReduce(ops, i, acc) ==
    IF i > Len(ops) THEN acc
    ELSE PayloadReduce(ops, i + 1, PayloadStep(acc, ops[i]))

\* buildVatPayload(operations) at clock reading clock
buildVatPayload(ops, clock) ==
    [operations |-> ops,
     totals |-> PayloadReduce(ops, 1, [input_vat |-> Zero, output_vat |-> Zero,
                                       net_vat |-> Zero]),
     generated_at |-> IsoDate(clock)]

-----------------------------------------------------------------------------
(* FileUpload.tsx: header discovery and column roles                       *)

ACCEPTED_TYPES ==
    { "text/csv", "application/vnd.ms-excel",
      "application/vnd.openxmlformats-officedocument.spreadsheetml.sheet" }

EndsWith(s, p) == Len(s) >= Len(p) /\ SubSeq(s, Len(s) - Len(p) + 1, Len(s)) = p

\* file.name.match(/\.(csv|xls|xlsx)$/i)
HasSheetExtension(name) ==
    LET n == toLowerCase(name)
    IN  EndsWith(n, ".csv") \/ EndsWith(n, ".xls") \/ EndsWith(n, ".xlsx")

\* the cell compared as written, without trim() and toLowerCase()
IsDateHeaderCellExact(cell) ==
    /\ cell.t # "undefined"
    /\ LET Matches(text) ==
               \/ includes(text, "data provodki")
               \/ includes(text, "data operacii")
               \/ text = "data"
               \/ text = "date"
       IN  Matches(CellString(cell))

\* the test of findHeaderAndDataRows on one cell: 'дата проводки', 'дата операции',
\* 'дата', 'date'
IsDateHeaderCell(cell) ==
    /\ cell.t # "undefined"
    /\ LET Matches(text) ==
               \/ includes(text, "data provodki")
               \/ includes(text, "data operacii")
               \/ text = "data"
               \/ text = "date"
       IN  Matches(toLowerCase(trim(CellString(cell))))

RECURSIVE FindHeaderIndex(_, _)
\* rows.findIndex(...) from row i on, 1-based; 0 stands for -1
FindHeaderIndex(rows, i) ==
    IF i > Len(rows) THEN 0
    ELSE IF \E j \in 1..Len(rows[i]) : IsDateHeaderCell(rows[i][j]) THEN i
    ELSE FindHeaderIndex(rows, i + 1)

\* findHeaderAndDataRows(rows) for a non-empty rows
findHeaderAndDataRows(rows) ==
    LET Split(headerIndex) ==
            IF headerIndex = 0
            THEN [headerRow |-> rows[1], dataRows |-> SubSeq(rows, 2, Len(rows))]
            ELSE [headerRow |-> rows[headerIndex],
                  dataRows |-> SubSeq(rows, headerIndex + 1, Len(rows))]
    IN  Split(FindHeaderIndex(rows, 1))

Roles ==
    { "date", "vo", "amount", "debit_amount", "credit_amount", "vat_rate",
      "vat_amount", "counterparty", "payment_purpose" }

\* replace(/[^\wа-яё\s]/g, '') after toLowerCase(): letters, digits, "_" and
\* white space stay
WordChars ==
    { CharAt(LowerCase, p) : p \in 1..Len(LowerCase) }
    \cup { CharAt(UpperCase, p) : p \in 1..Len(UpperCase) }
    \cup DigitChars \cup {"_"} \cup SpaceChars

IsWordChar(c) == c \in WordChars

RECURSIVE StripSpecial(_)
StripSpecial(s) ==
    IF s = "" THEN ""
    ELSE (IF IsWordChar(CharAt(s, 1)) THEN CharAt(s, 1) ELSE "")
             \o StripSpecial(SubSeq(s, 2, Len(s)))

\* the key buildHeaderIndex computes for a header cell h
HeaderKey(h) ==
    StripSpecial(toLowerCase(trim(IF CellTruthy(h) THEN CellString(h) ELSE "")))

\* the roles a header key populates; the Japanese synonyms of the source are
\* outside the alphabet of the model's strings
RolesOfKey(key) ==
    (IF key \in {"date", "data", "dat", "data operacii", "dataoperacii", "data provodki"}
        THEN {"date"} ELSE {})
    \cup (IF key \in {"vo", "kod operacii", "kodoperacii", "vo kod"} THEN {"vo"} ELSE {})
    \cup (IF key \in {"amount", "sum", "summa", "summa operacii", "summaoperacii",
                      "stoimost", "summa po debetu"}
          THEN {"amount", "debit_amount"} ELSE {})
    \cup (IF key \in {"summa po kreditu"} THEN {"credit_amount"} ELSE {})
    \cup (IF key \in {"vat", "vat_rate", "stavka nds", "nds", "stavka", "procent nds",
                      "procentnds"}
          THEN {"vat_rate"} ELSE {})
    \cup (IF key \in {"vat_amount", "summa nds", "nds summa", "summands", "nds rub"}
          THEN {"vat_amount"} ELSE {})
    \cup (IF key \in {"counterparty", "kontragent", "klient", "postavshchik", "partner",
                      "organizaciya", "bank (bik i naimenovanie)", "bank bik i naimenovanie"}
          THEN {"counterparty"} ELSE {})
    \cup (IF key \in {"naznachenie platezha"} THEN {"payment_purpose"} ELSE {})

RECURSIVE HeaderForEach(_, _, _)
\* headers.forEach((h, index) => ...) from header i on; map[r] = 0: role r absent,
\* otherwise the 1-based column of role r
HeaderForEach(headers, i, map) ==
    IF i > Len(headers) THEN map
    ELSE LET rs == RolesOfKey(HeaderKey(headers[i]))
         IN  HeaderForEach(headers, i + 1,
                           [r \in Roles |-> IF r \in rs THEN i ELSE map[r]])

buildHeaderIndex(headers) == HeaderForEach(headers, 1, [r \in Roles |-> 0])

getCell(row, map, key) ==
    LET idx == map[key]
    IN  IF idx = 0 \/ idx > Len(row) THEN Undefined ELSE row[idx]

-----------------------------------------------------------------------------
(* FileUpload.tsx: one data row to one Operation                           *)

\* a || b on cell values
CellOr(a, b) == IF CellTruthy(a) THEN a ELSE b

\* a || b on numbers
NumOr(a, b) == IF Truthy(a) THEN a ELSE b

\* String(x ?? '').trim()
TextOf(x) == IF x.t = "undefined" THEN "" ELSE trim(CellString(x))

\* row.every(cell => cell == null || String(cell).trim() === '')
IsEmptyRow(row) ==
    \A j \in 1..Len(row) : row[j].t = "undefined" \/ trim(CellString(row[j])) = ""

RECURSIVE SkipSpaces(_, _)
SkipSpaces(s, i) ==
    IF i <= Len(s) /\ IsSpace(CharAt(s, i)) THEN SkipSpaces(s, i + 1) ELSE i

RECURSIVE PercentMatch(_, _)
\* match(/(\d+)\s*%/) from position i on: the digits captured, "" when no match
PercentMatch(s, i) ==
    IF i > Len(s) THEN ""
    ELSE LET Sign(n, j) ==
                 IF n > 0 /\ j <= Len(s) /\ CharAt(s, j) = "%" THEN SubSeq(s, i, i + n - 1)
                 ELSE PercentMatch(s, i + 1)
             Digits(n) == Sign(n, SkipSpaces(s, i + n))
         IN  Digits(DigitRun(s, i))

RECURSIVE KeywordDigitsMatch(_, _)
\* match(/ндс\s*(\d+)/i) from position i on: the digits captured, "" when no match
KeywordDigitsMatch(s, i) ==
    LET Digits(m, j, n) ==
            IF n > 0 THEN SubSeq(s, j, j + n - 1) ELSE KeywordDigitsMatch(s, m + 1)
        AfterKeyword(m, j) == Digits(m, j, DigitRun(s, j))
        Keyword(m) == IF m = 0 THEN "" ELSE AfterKeyword(m, SkipSpaces(s, m + 3))
    IN  Keyword(indexOfFrom(toLowerCase(s), "nds", i))

\* rateMatch[1], "" when rateMatch is null
RateMatch(paymentPurpose) ==
    LET OrKeyword(a) == IF a # "" THEN a ELSE KeywordDigitsMatch(paymentPurpose, 1)
    IN  OrKeyword(PercentMatch(paymentPurpose, 1))

\* the amount and the direction of a row
ResolveAmount(rawDebitAmount, rawCreditAmount) ==
    IF Gt0(rawCreditAmount)
    THEN [rawAmount |-> rawCreditAmount, direction |-> "input"]
    ELSE IF Gt0(rawDebitAmount)
    THEN [rawAmount |-> neg(rawDebitAmount), direction |-> "output"]
    ELSE [rawAmount |-> NumOr(NumOr(rawDebitAmount, rawCreditAmount), Zero),
          direction |-> "output"]

\* the VAT rate and VAT amount of a row
ResolveVat(rawAmount, rawVatRate, rawVatAmount, paymentPurpose) ==
    LET FromText(vat_rate, vat_amount, fromDesc, rateMatch) ==
            IF Gt0(fromDesc)
            THEN [vat_amount |-> fromDesc,
                  vat_rate |-> IF rateMatch # "" THEN normalizeVatRate(StrCell(rateMatch))
                               ELSE vat_rate]
            ELSE [vat_amount |-> vat_amount, vat_rate |-> vat_rate]
        Computed(vat_rate, vat_amount) ==
            IF (~isFinite(vat_amount) \/ Eq0(vat_amount)) /\ paymentPurpose # ""
            THEN FromText(vat_rate, vat_amount, extractVatFromDescription(paymentPurpose),
                          RateMatch(paymentPurpose))
            ELSE [vat_amount |-> vat_amount, vat_rate |-> vat_rate]
        Rated(vat_rate) == Computed(vat_rate, computeVatAmount(rawAmount, vat_rate, rawVatAmount))
    IN  Rated(normalizeVatRate(rawVatRate))

\* the id taken from the file name alone
OperationIdOfFile(fileName, index) == fileName

\* id: `${file.name}-${index}`
OperationId(fileName, index) == fileName \o "-" \o IntToString(index)

\* the callback of dataRows.map: [k |-> "null"] for a skipped row, [k |-> "throw"]
\* when normalizeDate throws, otherwise [k |-> "op", op |-> the Operation];
\* index is the 0-based index of the row in dataRows
RowToOperation(row, index, headerMap, fileName, clock, zone) ==
    LET rawDate == getCell(row, headerMap, "date")
        rawDebitAmount == CellNumber(CellOr(getCell(row, headerMap, "debit_amount"),
                                            getCell(row, headerMap, "amount")))
        rawCreditAmount == CellNumber(getCell(row, headerMap, "credit_amount"))
        rawVatRate == getCell(row, headerMap, "vat_rate")
        rawVatAmount == getCell(row, headerMap, "vat_amount")
        Validated(v) == [k |-> "op", op |-> [v.op EXCEPT !.errors = v.errors]]
        Built(ad, vat, date, counterparty, paymentPurpose) ==
            IF date = RangeError THEN [k |-> "throw"]
            ELSE Validated(validateOperation(
                     [id |-> OperationId(fileName, index),
                      date |-> date,
                      amount |-> ad.rawAmount,
                      vat_rate |-> vat.vat_rate,
                      vat_amount |-> vat.vat_amount,
                      counterparty |-> IF counterparty # "" THEN counterparty
                                       ELSE paymentPurpose,
                      source |-> fileName,
                      direction |-> ad.direction,
                      errors |-> << >>], clock, zone))
        Resolved(ad, counterparty, paymentPurpose) ==
            Built(ad, ResolveVat(ad.rawAmount, rawVatRate, rawVatAmount, paymentPurpose),
                  normalizeDate(rawDate, zone), counterparty, paymentPurpose)
    IN  IF IsEmptyRow(row) THEN [k |-> "null"]
        ELSE Resolved(ResolveAmount(rawDebitAmount, rawCreditAmount),
                      TextOf(getCell(row, headerMap, "counterparty")),
                      TextOf(getCell(row, headerMap, "payment_purpose")))

RECURSIVE MapRows(_, _, _, _, _, _, _)
\* dataRows.map(...).filter(op => op !== null) from row i on, appended to acc;
\* [k |-> "throw"] when the callback throws
MapRows(dataRows, i, acc, headerMap, fileName, clock, zone) ==
    IF i > Len(dataRows) THEN [k |-> "ok", operations |-> acc]
    ELSE LET Mapped(r) ==
                 IF r.k = "throw" THEN [k |-> "throw", operations |-> << >>]
                 ELSE MapRows(dataRows, i + 1,
                              IF r.k = "null" THEN acc ELSE Append(acc, r.op),
                              headerMap, fileName, clock, zone)
         IN  Mapped(RowToOperation(dataRows[i], i - 1, headerMap, fileName, clock, zone))

\* the body of the try block of reader.onload, from findHeaderAndDataRows on,
\* for a non-empty rows
ParseRows(rows, fileName, clock, zone) ==
    LET Mapped(hd) ==
            MapRows(hd.dataRows, 1, << >>, buildHeaderIndex(hd.headerRow),
                    fileName, clock, zone)
    IN  Mapped(findHeaderAndDataRows(rows))

-----------------------------------------------------------------------------
(* FileUpload.tsx and App.tsx: the handlers                                *)

\* the values of the error state: null and the four messages
null == "null"
ErrUnsupported == "Nepodderzhivaemyj format fajla"
ErrRead == "Ne udalos prochitat fajl"
ErrEmpty == "Fajl vyglyadit pustym"
ErrParse == "Ne udalos razobrat fajl"

\* a file: its name, its MIME type and what XLSX.read and sheet_to_json make
\* of its bytes (the rows of the first sheet, or an exception)
File(name, type, rows) == [name |-> name, type |-> type, corrupt |-> FALSE, rows |-> rows]
CorruptFile(name, type) == [name |-> name, type |-> type, corrupt |-> TRUE, rows |-> << >>]

\* the gate left open: every file is read
AcceptedAlways(file) == TRUE

\* the negation of the condition of the gate of handleChange
Accepted(file) == file.type \in ACCEPTED_TYPES \/ HasSheetExtension(file.name)

Observed(handler, outcome, file, readStarted, onParsed) ==
    [handler |-> handler, outcome |-> outcome, file |-> file.name, type |-> file.type,
     readStarted |-> readStarted, onParsed |-> onParsed, at |-> now]

NoneSeen == [file |-> "", rows |-> << >>, at |-> 0, operations |-> << >>, overtook |-> FALSE]

RemoveAt(q, i) == SubSeq(q, 1, i - 1) \o SubSeq(q, i + 1, Len(q))

\* the number of reads the model lets be in flight at once
MaxReads == 2

\* handleChange(e) with e.target.files[0] = file
HandleChange(file) ==
    /\ Len(reads) < MaxReads
    /\ IF ~Accepted(file)
       THEN /\ error' = ErrUnsupported
            /\ reads' = reads
            /\ last' = Observed("handleChange", "rejected", file, FALSE, FALSE)
       ELSE /\ error' = error
            /\ reads' = Append(reads, file)   \* reader.readAsArrayBuffer(file)
            /\ last' = Observed("handleChange", "reading", file, TRUE, FALSE)
    /\ UNCHANGED <<operations, now, tz, seen, arg, result>>

\* reader.onerror of the i-th read in flight
ReaderOnError(i) ==
    /\ i \in 1..Len(reads)
    /\ error' = ErrRead
    /\ reads' = RemoveAt(reads, i)
    /\ last' = Observed("onerror", "read_error", reads[i], FALSE, FALSE)
    /\ UNCHANGED <<operations, now, tz, seen, arg, result>>

\* what reader.onload does with a file at clock reading clock:
\* the error it sets and, when it calls onParsed, the operations it passes
OnLoadResult(file, clock, zone) ==
    IF file.corrupt
    THEN [outcome |-> "parse_failed", error |-> ErrParse, onParsed |-> FALSE, operations |-> << >>]
    ELSE IF Len(file.rows) = 0
    THEN [outcome |-> "empty", error |-> ErrEmpty, onParsed |-> FALSE, operations |-> << >>]
    ELSE LET Parsed(p) ==
                 IF p.k = "throw"
                 THEN [outcome |-> "parse_failed", error |-> ErrParse, onParsed |-> FALSE,
                       operations |-> << >>]
                 ELSE [outcome |-> "parsed", error |-> null, onParsed |-> TRUE,
                       operations |-> p.operations]
         IN  Parsed(ParseRows(file.rows, file.name, clock, zone))

\* the rows of the file parsed before are kept and the new ones added
setOperationsMerged(prev, next) == prev \o next

\* App: setOperations(next), the setter of useState: next replaces the state
setOperations(prev, next) == next

\* reader.onload of the i-th read in flight; onParsed is App's setOperations
ReaderOnLoad(i) ==
    /\ i \in 1..Len(reads)
    /\ \E file \in {reads[i]} : \E r \in {OnLoadResult(file, now, tz)} :
           /\ error' = r.error
           /\ operations' = IF r.onParsed THEN setOperations(operations, r.operations)
                            ELSE operations
           /\ last' = Observed("onload", r.outcome, file, FALSE, r.onParsed)
           /\ seen' = IF r.onParsed /\ seen = NoneSeen
                      THEN [file |-> file.name, rows |-> file.rows, at |-> now,
                            operations |-> r.operations,
                            overtook |-> i > 1]   \* a read started earlier is in flight
                      ELSE seen
    /\ reads' = RemoveAt(reads, i)
    /\ UNCHANGED <<now, tz, arg, result>>

\* App: const totals = useMemo(() => calculateTotals(operations), [operations])
totals == calculateTotals(operations)

-----------------------------------------------------------------------------
(* The environment: clock, time zone, the files a user may select          *)

Num(v) == NumCell(Fin(v))       \* a numeric cell of v thousandths
Str(s) == StrCell(s)

Moscow == (3 * 1000) \div 24     \* UTC+3, in thousandths of a day
Now0 == DaysFromCivil(2024, 6, 1) * 1000
TickStep == 365 * 1000          \* the clock advances a year at a time
MaxTicks == 1

Tick ==
    /\ now < Now0 + MaxTicks * TickStep
    /\ now' = now + TickStep
    /\ UNCHANGED <<error, operations, reads, tz, last, seen, arg, result>>

SberHeader ==
    << Str("Data provodki"), Str("VO"), Str("Summa po debetu"), Str("Summa po kreditu"),
       Str("Stavka NDS"), Str("Summa NDS"), Str("Kontragent"), Str("Naznachenie platezha") >>

GenericHeader == << Str("date"), Str("amount"), Str("vat_rate"), Str("counterparty") >>

SberRow(date, vo, debit, credit, rate, vat, cp, purpose) ==
    << date, vo, debit, credit, rate, vat, cp, purpose >>

Romashka == Str("OOO Romashka")

\* rows that vary the operation code and the debit and credit cells
AmountRows ==
    { SberRow(Str("15.03.2024"), vo, debit, credit, Undefined, Undefined, Romashka,
              Str("Oplata po schetu")) :
        vo \in {Undefined, Str("01"), Str("02"), Str("17")},
        debit \in {Undefined, Num(50000000), Num(0), Num(-700000), Str("abc")},
        credit \in {Undefined, Num(100000000), Num(0), Str("Infinity")} }

\* rows that vary the sources of the VAT rate and the VAT amount
VatRows ==
    { SberRow(Str("15.03.2024"), Undefined, amounts[1], amounts[2], rate, vat, Romashka,
              purpose) :
        amounts \in { <<Num(1200000), Undefined>>, <<Undefined, Num(1200000)>> },
        rate \in {Undefined, Num(20000), Str("20%"), Num(200), Num(15000000), Num(-5000),
                  Num(0)},
        vat \in {Undefined, Num(8333330), Num(-12500), Str("8333,33"), Num(1004), Num(0)},
        purpose \in {Undefined, Str("NDS 20% - 16666.67"), Str("Bez NDS 100.00"),
                     Str("V t.ch. NDS (10%) 202-83 rub.")} }

\* rows that vary what the validator looks at
ValidityRows ==
    { SberRow(date, Undefined, Undefined, Num(1200000), Undefined, Num(200000), cp, purpose) :
        date \in {Str("15.03.2024"), Str("15.06.2024"), Str("15.03.2030"), Str("15.03.1999"),
                  Str("abc"), Undefined, Num(45366000), NumCell(Big(1))},
        cp \in {Romashka, Undefined, Str("7"), Str("12345")},
        purpose \in {Undefined, Str("Oplata")} }

\* rows of the generic layout date, amount, vat_rate, counterparty
GenericRows ==
    { << date, amount, rate, cp >> :
        date \in {Str("2024-03-15"), Str("15/03/2024"), Undefined},
        amount \in {Num(1200000), Num(-1200000), Num(0), Str("abc"), Str("1200.50")},
        rate \in {Num(20000), Str("20%"), Undefined},
        cp \in {Romashka, Undefined} }

\* the statement of the end-to-end scenario: a credit row, a debit row with an
\* explicit VAT amount and a zero-amount row
ScenarioRows ==
    << SberRow(Str("15.03.2024"), Undefined, Undefined, Num(100000000), Undefined, Undefined,
               Romashka, Str("NDS 20% - 16666.67")),
       SberRow(Str("16.03.2024"), Undefined, Num(50000000), Undefined, Undefined,
               Num(8333330), Romashka, Str("Oplata po schetu")),
       SberRow(Str("17.03.2024"), Undefined, Num(0), Undefined, Undefined, Undefined,
               Romashka, Str("Nulevaya stroka")) >>

\* rows to build statements of several rows from: both directions, VAT amounts
\* with and without fractions of a kopeck, zero VAT, a row with violations, an
\* empty row
TotalsRows ==
    { SberRow(Str("15.03.2024"), Undefined, Undefined, Num(1200000), Undefined, Num(1004),
              Romashka, Undefined),
      SberRow(Str("16.03.2024"), Undefined, Num(1200000), Undefined, Undefined, Num(996),
              Romashka, Undefined),
      SberRow(Str("17.03.2024"), Undefined, Num(600000), Undefined, Num(20000), Undefined,
              Romashka, Undefined),
      SberRow(Str("18.03.2024"), Undefined, Undefined, Num(100000000), Undefined, Undefined,
              Romashka, Str("NDS 20% - 16666.67")),
      SberRow(Str("19.03.2024"), Undefined, Num(500000), Undefined, Undefined, Undefined,
              Romashka, Str("Bez NDS")),
      SberRow(Str("15.03.2030"), Undefined, Undefined, Num(900000), Undefined, Num(150000),
              Romashka, Undefined),
      SberRow(Undefined, Undefined, Undefined, Undefined, Undefined, Undefined, Undefined,
              Str("  ")) }

MaxRows == 3

RECURSIVE SeqsUpTo(_, _)
\* the sequences of at most n elements of S
SeqsUpTo(S, n) ==
    IF n = 0 THEN { << >> }
    ELSE LET shorter == SeqsUpTo(S, n - 1)
         IN  shorter \cup { Append(q, x) : q \in shorter, x \in S }

\* the statements whose parse the row-level properties are checked on
ParseSheets ==
    { << SberHeader, r >> : r \in AmountRows \cup VatRows \cup ValidityRows }
    \cup { << GenericHeader, r >> : r \in GenericRows }
    \cup { << SberHeader >> \o q : q \in SeqsUpTo(TotalsRows, MaxRows) }
    \cup { << SberHeader >> \o ScenarioRows }

ParseFiles == { File("vypiska.xlsx", "", rows) : rows \in ParseSheets }

XlsxType == "application/vnd.openxmlformats-officedocument.spreadsheetml.sheet"

\* a statement with a row dated after Now0 and before the next clock reading,
\* and a row dated in the year 2000
DatedRows ==
    << SberRow(Str("15.06.2024"), Undefined, Undefined, Num(1200000), Undefined, Num(200000),
               Romashka, Undefined),
       SberRow(Str("15.03.2000"), Undefined, Num(600000), Undefined, Undefined, Num(100000),
               Romashka, Undefined) >>

\* the files a user selects in the upload control: two statements (one accepted
\* by its MIME type, one by its extension alone), a file of another kind, an
\* empty sheet, bytes XLSX.read cannot make a workbook of
UploadFiles ==
    { File("vypiska.xlsx", XlsxType, << SberHeader >> \o ScenarioRows),
      File("MARCH.XLS", "", << SberHeader >> \o DatedRows),
      File("report.pdf", "application/pdf", << SberHeader >> \o ScenarioRows),
      File("empty.csv", "text/csv", << >>),
      CorruptFile("broken.xlsx", XlsxType) }

MaxPercent == 60

\* a percentage p, or p and a half when half is 1, as a number cell, as a
\* string and as a percent-formatted string
PercentNumber(p, half) == Num(p * 1000 + half * 500)
PercentText(p, half) == IntToString(p) \o (IF half = 1 THEN ",5" ELSE "")
PercentString(p, half) == Str(PercentText(p, half) \o "%")

\* the arguments normalizeVatRate is applied to on its own
RateArgs ==
    { PercentNumber(p, half) : p \in 0..MaxPercent, half \in {0, 1} }
    \cup { PercentString(p, half) : p \in 0..MaxPercent, half \in {0, 1} }
    \cup { Str(PercentText(p, 0)) : p \in 0..MaxPercent }
    \cup { Num(200), Num(-20000), Str(" 20 % "), Str("abc"), Str(""), Undefined,
           NumCell(NaN), NumCell(Inf(1)) }

-----------------------------------------------------------------------------
(* Specifications                                                          *)

InitState ==
    /\ error = null
    /\ operations = << >>
    /\ reads = << >>
    /\ now = Now0
    /\ tz = Moscow
    /\ last = Observed("none", "none", File("", "", << >>), FALSE, FALSE)
    /\ seen = NoneSeen
    /\ arg = Undefined
    /\ result = NullNum

\* one statement is selected, read and parsed
NextParse ==
    \/ /\ last.handler = "none"
       /\ \E file \in ParseFiles : HandleChange(file)
    \/ ReaderOnLoad(1)

SpecParse == InitState /\ [][NextParse]_vars

\* the upload control in use: files are selected, reads complete or fail in
\* any order, the clock advances
Next ==
    \/ \E file \in UploadFiles : HandleChange(file)
    \/ \E i \in 1..MaxReads : ReaderOnLoad(i)
    \/ \E i \in 1..MaxReads : ReaderOnError(i)
    \/ Tick

Spec == InitState /\ [][Next]_vars

\* normalizeVatRate applied on its own to one argument
InitRate ==
    /\ error = null
    /\ operations = << >>
    /\ reads = << >>
    /\ now = Now0
    /\ tz = Moscow
    /\ last = Observed("none", "none", File("", "", << >>), FALSE, FALSE)
    /\ seen = NoneSeen
    /\ arg \in RateArgs
    /\ result = NullNum

ApplyNormalizeVatRate ==
    /\ last.handler = "none"
    /\ result' = normalizeVatRate(arg)
    /\ last' = [last EXCEPT !.handler = "normalizeVatRate", !.outcome = "returned"]
    /\ UNCHANGED <<error, operations, reads, now, tz, seen, arg>>

SpecRate == InitRate /\ [][ApplyNormalizeVatRate]_vars

-----------------------------------------------------------------------------
(* Properties of one parsed statement (checked under SpecParse)            *)

\* a statement has been parsed and handed to App; seen.rows are its rows
Parsed == last.handler = "onload" /\ last.outcome = "parsed"

\* the statement parsed has the Sber header and one data row, which was emitted
OneSberRow ==
    /\ Parsed
    /\ Len(seen.rows) = 2 /\ seen.rows[1] = SberHeader
    /\ Len(operations) = 1

\* op belongs to the bucket of direction dir: no violations, a VAT amount that
\* is not zero, direction dir
Counts(op, dir) == Len(op.errors) = 0 /\ op.vat_amount # Zero /\ op.direction = dir

RECURSIVE SumOver(_, _)
\* the sum of vat_amount over the operations of ops that count for dir
SumOver(ops, dir) ==
    IF ops = << >> THEN Zero
    ELSE Add(SumOver(SubSeq(ops, 1, Len(ops) - 1), dir),
             IF Counts(ops[Len(ops)], dir) THEN ops[Len(ops)].vat_amount ELSE Zero)

\* C1: input_vat is the sum, rounded to 2 decimals, of vat_amount over exactly
\* the operations without violations, with a non-zero vat_amount and direction
\* 'input', output_vat the same for 'output'; an operation with a violation is
\* in the list, and removing it changes none of the three totals.
C1_TotalsSumValidByDirection ==
    /\ totals.input_vat = Round2(SumOver(operations, "input"))
    /\ totals.output_vat = Round2(SumOver(operations, "output"))
    /\ \A i \in 1..Len(operations) :
           Len(operations[i].errors) > 0
               => calculateTotals(RemoveAt(operations, i)) = totals

\* a parsed statement with a counted input operation, a counted output
\* operation and an operation that has a violation and a VAT amount
C1_Witness ==
    /\ Parsed
    /\ \E i, j, k \in 1..Len(operations) :
           /\ Counts(operations[i], "input")
           /\ Counts(operations[j], "output")
           /\ Len(operations[k].errors) > 0 /\ Gt0(operations[k].vat_amount)

\* C2: net_vat is round(output_vat - input_vat, 2) of the rounded output_vat
\* and input_vat of the same result.
C2_NetOfRoundedTotals ==
    totals.net_vat = Round2(Sub(totals.output_vat, totals.input_vat))

\* C3: every operation the parse emits has vat_amount >= 0 after validation.
C3_VatAmountNonNegative ==
    \A i \in 1..Len(operations) :
        /\ operations[i].vat_amount.k \in {"fin", "big", "inf"}
        /\ operations[i].vat_amount.v >= 0

\* a row whose explicit VAT cell is negative was emitted with a positive VAT
C3_Witness ==
    /\ OneSberRow
    /\ seen.rows[2][6].t = "number" /\ Lt0(seen.rows[2][6].num)
    /\ Gt0(operations[1].vat_amount)

\* C4, rule (a): a row with a recognized operation code has the direction of
\* the code ('01', '17': input; '02': output), whatever the lower rules say.
C4_OperationCodeDecidesDirection ==
    OneSberRow =>
        /\ seen.rows[2][2] \in {Str("01"), Str("17")} => operations[1].direction = "input"
        /\ seen.rows[2][2] = Str("02") => operations[1].direction = "output"

\* C5: with the explicit VAT cell empty and a payment purpose that yields a
\* positive amount, vat_amount is that amount, whatever the rate and the amount.
C5_TextBeforeComputedFallback ==
    (/\ OneSberRow
     /\ seen.rows[2][6] = Undefined
     /\ seen.rows[2][8].t = "string"
     /\ Gt0(extractVatFromDescription(seen.rows[2][8].str)))
        => operations[1].vat_amount = extractVatFromDescription(seen.rows[2][8].str)

\* C6: the statement of the scenario (a credit row of 100000 with the purpose
\* 'NDS 20% - 16666.67', a debit row of 50000 with the explicit VAT 8333.33, a
\* zero-amount row) gives 2 operations, output_vat 16666.67, input_vat 8333.33
\* and net_vat 8333.34.
C6_ScenarioTotals ==
    (Parsed /\ seen.rows = << SberHeader >> \o ScenarioRows)
        => /\ Len(operations) = 2
           /\ totals.output_vat = Fin(16666670)
           /\ totals.input_vat = Fin(8333330)
           /\ totals.net_vat = Fin(8333340)

\* C8: the load of a non-empty sheet ends in the success outcome, error
\* cleared, whatever the data rows hold (every file of SpecParse has a header
\* row and at least that row).
C8_RowContentNeverAborts ==
    last.handler = "onload" => (last.outcome = "parsed" /\ error = null)

-----------------------------------------------------------------------------
(* Properties of the upload control (checked under Spec)                   *)

Rejections == {"rejected", "read_error", "empty", "parse_failed"}

RECURSIVE WithoutFuture(_)
\* a list of violations without the date-in-the-future violation
WithoutFuture(errors) ==
    IF errors = << >> THEN << >>
    ELSE (IF Head(errors) = ErrDateFuture THEN << >> ELSE << Head(errors) >>)
             \o WithoutFuture(Tail(errors))

\* the file parsed first has been parsed again: operations is the later result
Reparsed == Parsed /\ last.file = seen.file

-----------------------------------------------------------------------------
(* Properties of normalizeVatRate (checked under SpecRate)                 *)

\* C10: the number 20, the string "20%" and the number 0.2 normalize to 0.2;
\* a percent-formatted string "p%" normalizes to what the number p does.
C10_PercentStringAsNumber ==
    last.handler = "normalizeVatRate" =>
        /\ arg \in {Num(20000), Str("20%"), Num(200)} => result = Fin(200)
        /\ \A p \in 0..MaxPercent : \A half \in {0, 1} :
               arg = PercentString(p, half)
                   => result = normalizeVatRate(PercentNumber(p, half))

\* normalizeVatRate was applied to "20%" and returned 0.2
C10_Witness ==
    last.handler = "normalizeVatRate" /\ arg = Str("20%") /\ result = Fin(200)

-----------------------------------------------------------------------------
(* normalizeDate on its own (SpecDate)                                     *)

\* the number of years, from 2023 on, the calendar days are drawn from
MaxYears == 2

\* runtime time zones: UTC, UTC+3, UTC-6, in thousandths of a day
Zones == {0, Moscow, 0 - 2 * Moscow}

\* the valid calendar days of the years, a few days of every month
Days ==
    { day \in [y : 2023..(2023 + MaxYears - 1), m : 1..12, d : {1, 15, 28, 29, 30, 31}] :
          day.d <= DaysInMonth(day.y, day.m) }

Pad2(n) == IF n < 10 THEN "0" \o IntToString(n) ELSE IntToString(n)

\* a calendar day written DD.MM.YYYY, DD/MM/YYYY, YYYY-MM-DD, YYYY/MM/DD
RuForm(day) == Pad2(day.d) \o "." \o Pad2(day.m) \o "." \o IntToString(day.y)
RuSlashForm(day) == Pad2(day.d) \o "/" \o Pad2(day.m) \o "/" \o IntToString(day.y)
IsoForm(day) == IntToString(day.y) \o "-" \o Pad2(day.m) \o "-" \o Pad2(day.d)
JpForm(day) == IntToString(day.y) \o "/" \o Pad2(day.m) \o "/" \o Pad2(day.d)

\* the cells normalizeDate is applied to on its own
DateArgs ==
    { Str(RuForm(day)) : day \in Days } \cup { Str(IsoForm(day)) : day \in Days }
    \cup { Str(RuSlashForm(day)) : day \in Days } \cup { Str(JpForm(day)) : day \in Days }
    \cup { Undefined, Str("abc"), Str(""), Str("31.02.2023"), Str("2023-02-31"),
           Num(45291000), NumCell(Big(1)) }

InitDate ==
    /\ error = null
    /\ operations = << >>
    /\ reads = << >>
    /\ now = Now0
    /\ tz \in Zones
    /\ last = Observed("none", "none", File("", "", << >>), FALSE, FALSE)
    /\ seen = NoneSeen
    /\ arg \in DateArgs
    /\ result = EmptyDate

ApplyNormalizeDate ==
    /\ last.handler = "none"
    /\ result' = normalizeDate(arg, tz)
    /\ last' = [last EXCEPT !.handler = "normalizeDate", !.outcome = "returned"]
    /\ UNCHANGED <<error, operations, reads, now, tz, seen, arg>>

SpecDate == InitDate /\ [][ApplyNormalizeDate]_vars

\* C11: in every time zone, normalizeDate of the DD.MM.YYYY form of a valid
\* day is the string normalizeDate gives for its YYYY-MM-DD form.
C11_SameDayAcrossFormats ==
    last.handler = "normalizeDate" =>
        \A day \in Days :
            arg = Str(RuForm(day)) => result = normalizeDate(Str(IsoForm(day)), tz)

-----------------------------------------------------------------------------
(* lib/vat: groupNetVatByMonth, and the chart data of App (SpecChart)      *)

\* the order of the UTF-16 code units of the characters of a month key
KeyChars == "-0123456789"

RECURSIVE StringLess(_, _)
\* a < b on strings: the order of the first code unit that differs
StringLess(a, b) ==
    IF b = "" THEN FALSE
    ELSE IF a = "" THEN TRUE
    ELSE IF CharAt(a, 1) = CharAt(b, 1)
         THEN StringLess(SubSeq(a, 2, Len(a)), SubSeq(b, 2, Len(b)))
         ELSE IndexIn(CharAt(a, 1), KeyChars, 1) < IndexIn(CharAt(b, 1), KeyChars, 1)

\* `${d.getFullYear()}-${String(d.getMonth() + 1).padStart(2, '0')}`
MonthKey(t, zone) ==
    LET Key(civil) == IntToString(civil.y) \o "-" \o Pad2(civil.m)
    IN  Key(LocalCivil(t, zone))

\* every amount added to the output side, whatever the direction
MonthlyAddToOutput(current, op) ==
    [current EXCEPT !.output = Add(current.output, abs(op.vat_amount))]

\* current.input += ..., current.output += ...
MonthlyAdd(current, op) ==
    IF op.direction = "input"
    THEN [current EXCEPT !.input = Add(current.input, abs(op.vat_amount))]
    ELSE [current EXCEPT !.output = Add(current.output, abs(op.vat_amount))]

\* the two continue tests of the loop: the operation reaches a bucket
CountsInMonth(op) == op.date.k = "iso" /\ Truthy(op.vat_amount)

\* the body of the for loop; map is the Map in insertion order, a sequence of
\* [month, input, output]
MonthlyStep(map, op, zone) ==
    IF ~CountsInMonth(op) THEN map
    ELSE LET Set(key) ==
                 IF \E j \in 1..Len(map) : map[j].month = key
                 THEN [j \in 1..Len(map) |->
                          IF map[j].month = key THEN MonthlyAdd(map[j], op) ELSE map[j]]
                 ELSE Append(map, MonthlyAdd([month |-> key, input |-> Zero,
                                              output |-> Zero], op))
         IN  Set(MonthKey(op.date.t, zone))

RECURSIVE MonthlyReduce(_, _, _, _)
MonthlyReduce(ops, i, map, zone) ==
    IF i > Len(ops) THEN map
    ELSE MonthlyReduce(ops, i + 1, MonthlyStep(map, ops[i], zone), zone)

\* the comparator of the sort: ([a], [b]) => (a < b ? -1 : 1)
MonthBefore(a, b) == StringLess(a, b)

\* Array.prototype.sort of entries with distinct keys
SortByMonth(entries) ==
    LET Rank(j) == Cardinality({ k \in 1..Len(entries) :
                                     MonthBefore(entries[k].month, entries[j].month) })
    IN  [r \in 1..Len(entries) |->
            entries[CHOOSE j \in 1..Len(entries) : Rank(j) = r - 1]]

groupNetVatByMonth(ops, zone) ==
    LET Emit(sorted) ==
            [j \in 1..Len(sorted) |->
                [month |-> sorted[j].month,
                 net_vat |-> Round2(Sub(sorted[j].output, sorted[j].input))]]
    IN  Emit(SortByMonth(MonthlyReduce(ops, 1, << >>, zone)))

\* App: const chartData = useMemo(() => groupNetVatByMonth(operations), [operations])
chartData == groupNetVatByMonth(operations, tz)

\* rows of several months and years: both directions, a row without VAT, rows
\* with a violation (a date before 2000, a date in the future, no date)
ChartRows ==
    { SberRow(Str("15.03.2024"), Undefined, Undefined, Num(1200000), Undefined, Num(200000),
              Romashka, Undefined),
      SberRow(Str("20.03.2024"), Undefined, Num(600000), Undefined, Undefined, Num(100000),
              Romashka, Undefined),
      SberRow(Str("15.01.2024"), Undefined, Num(600000), Undefined, Undefined, Num(50000),
              Romashka, Undefined),
      SberRow(Str("01.12.2023"), Undefined, Undefined, Num(300000), Undefined, Num(20000),
              Romashka, Undefined),
      SberRow(Str("15.02.2024"), Undefined, Num(500000), Undefined, Undefined, Undefined,
              Romashka, Str("Bez NDS")),
      SberRow(Str("15.03.999"), Undefined, Undefined, Num(1200000), Undefined, Num(30000),
              Romashka, Undefined),
      SberRow(Str("15.03.2030"), Undefined, Undefined, Num(900000), Undefined, Num(150000),
              Romashka, Undefined),
      SberRow(Str("abc"), Undefined, Undefined, Num(100000), Undefined, Num(10000),
              Romashka, Undefined) }

MaxChartRows == 3

ChartFiles ==
    { File("vypiska.xlsx", XlsxType, << SberHeader >> \o q) :
          q \in SeqsUpTo(ChartRows, MaxChartRows) }

\* one statement of ChartFiles is selected, read and parsed
NextChart ==
    \/ /\ last.handler = "none"
       /\ \E file \in ChartFiles : HandleChange(file)
    \/ ReaderOnLoad(1)

SpecChart == InitState /\ [][NextChart]_vars

\* the calendar months, in local time, of the operations that have a date and
\* a VAT amount other than zero
VatMonths ==
    { [y |-> LocalCivil(operations[i].date.t, tz).y,
       m |-> LocalCivil(operations[i].date.t, tz).m] :
          i \in { j \in 1..Len(operations) :
                      /\ operations[j].date.k = "iso"
                      /\ operations[j].vat_amount # Zero } }

MonthsBefore(ym) == { x \in VatMonths : x.y < ym.y \/ (x.y = ym.y /\ x.m < ym.m) }

\* C12: the buckets of groupNetVatByMonth are the months that hold an
\* operation with a non-zero vat_amount, each once, earlier months first.
C12_MonthsAscendingChronological ==
    /\ Len(chartData) = Cardinality(VatMonths)
    /\ \A ym \in VatMonths :
           chartData[Cardinality(MonthsBefore(ym)) + 1].month
               = IntToString(ym.y) \o "-" \o Pad2(ym.m)

\* the net VAT of the month of key over the operations without violations
RECURSIVE ValidNetOfMonth(_, _, _)
ValidNetOfMonth(ops, key, zone) ==
    IF ops = << >> THEN Zero
    ELSE LET op == ops[Len(ops)]
             rest == ValidNetOfMonth(SubSeq(ops, 1, Len(ops) - 1), key, zone)
         IN  IF /\ Len(op.errors) = 0 /\ op.vat_amount # Zero /\ op.date.k = "iso"
                /\ MonthKey(op.date.t, zone) = key
             THEN (IF op.direction = "input" THEN Sub(rest, op.vat_amount)
                   ELSE Add(rest, op.vat_amount))
             ELSE rest

\* C13: every bucket holds an operation without violations, and its net VAT
\* is output minus input over the operations without violations of its month.
C13_MonthlyNetFromValidOnly ==
    \A j \in 1..Len(chartData) :
        /\ \E i \in 1..Len(operations) :
               /\ Len(operations[i].errors) = 0
               /\ operations[i].vat_amount # Zero
               /\ operations[i].date.k = "iso"
               /\ MonthKey(operations[i].date.t, tz) = chartData[j].month
        /\ chartData[j].net_vat = Round2(ValidNetOfMonth(operations, chartData[j].month, tz))

-----------------------------------------------------------------------------
(* Properties of reads in flight at the same time (checked under Spec)     *)

\* the file of UploadFiles with the given name
FileNamed(name) == CHOOSE file \in UploadFiles : file.name = name

\* C14: right after a read has completed successfully the operations of App
\* are the ones parsed from the file of that read and nothing else, whatever
\* reads were in flight and whatever App held before.
C14_LastCompletedWins ==
    (last.handler = "onload" /\ last.outcome = "parsed") =>
        /\ operations = OnLoadResult(FileNamed(last.file), last.at, tz).operations
        /\ \A i \in 1..Len(operations) : operations[i].source = last.file

\* two reads were in flight, the file selected second completed first, the
\* file selected first completed last and its operations are the ones shown
C14_Witness ==
    /\ seen.overtook
    /\ last.handler = "onload" /\ last.outcome = "parsed"
    /\ last.file # seen.file
    /\ reads = << >>
    /\ Len(operations) > 0 /\ Len(seen.operations) > 0
    /\ operations # seen.operations

-----------------------------------------------------------------------------
(* Properties of a generic statement (checked under SpecParse)             *)

\* the statement parsed has the generic header and one data row, which was
\* emitted
OneGenericRow ==
    /\ Parsed
    /\ Len(seen.rows) = 2 /\ seen.rows[1] = GenericHeader
    /\ Len(operations) = 1

\* C15: a row of a generic statement with a positive amount gives an
\* operation of direction 'output', one with a negative amount gives
\* direction 'input', and the operation has the amount of the row, sign
\* included.
C15_GenericSignedAmount ==
    (OneGenericRow /\ seen.rows[2][2].t = "number") =>
        /\ Gt0(seen.rows[2][2].num) => operations[1].direction = "output"
        /\ Lt0(seen.rows[2][2].num) => operations[1].direction = "input"
        /\ operations[1].amount = seen.rows[2][2].num

-----------------------------------------------------------------------------
(* extractVatFromDescription on its own (SpecExtract)                      *)

RECURSIVE Repeat(_, _)
Repeat(s, n) ==
    IF n = 0 THEN ""
    ELSE IF n % 2 = 1 THEN s \o Repeat(s, n - 1)
    ELSE LET Twice(half) == half \o half
         IN  Twice(Repeat(s, n \div 2))

\* text without digits and without the keyword, as long as the window
Filler == Repeat("x", window)

\* the parts a payment purpose is put together from: an exempt phrase or
\* nothing, text before the keyword, the keyword, text right after it,
\* filler, text after the filler
ExemptParts == {"", "Bez NDS. ", "NDS NE OBLAGAETSYA, ", "bez naloga (NDS) "}
BeforeParts == {"", "Schet 111.11 ot 01.02.2024 "}
KeywordParts == {"", "NDS", "v t.ch. nds"}
InsideParts ==
    {"", " (20%) 202-83 rub.", " 20 % - 21035.60 rublej", " 20% 1 000,50 iz nih 300.25",
     " ne nachislen", " po dogovoru ot 2017-06-05", " po dogovoru ot 05.06.2017",
     " 18% 10,00 i NDS 10% 5,00"}
PaddingParts == {"", Filler}
BeyondParts == {"", " itogo 999.99", " NDS 7,50", " bez nds"}

ExtractArgs ==
    [exempt : ExemptParts, before : BeforeParts, keyword : KeywordParts,
     inside : InsideParts, padding : PaddingParts, beyond : BeyondParts]

\* the payment purpose made of the parts
Description(parts) ==
    parts.exempt \o parts.before \o parts.keyword \o parts.inside \o parts.padding
        \o parts.beyond

InitExtract ==
    /\ error = null
    /\ operations = << >>
    /\ reads = << >>
    /\ now = Now0
    /\ tz = Moscow
    /\ last = Observed("none", "none", File("", "", << >>), FALSE, FALSE)
    /\ seen = NoneSeen
    /\ arg \in ExtractArgs
    /\ result = Zero

ApplyExtractVat ==
    /\ last.handler = "none"
    /\ result' = extractVatFromDescription(Description(arg))
    /\ last' = [last EXCEPT !.handler = "extractVatFromDescription", !.outcome = "returned"]
    /\ UNCHANGED <<error, operations, reads, now, tz, seen, arg>>

SpecExtract == InitExtract /\ [][ApplyExtractVat]_vars

Extracted == last.handler = "extractVatFromDescription"

\* the text holds an exempt phrase
HasExemptPart == arg.exempt # "" \/ arg.beyond = " bez nds"

\* C16: the result is 0 for every text that holds an exempt phrase, in any
\* letter case, whatever numbers and keywords the text holds besides.
C16_ExemptPhraseFirst == (Extracted /\ HasExemptPart) => result = Zero

\* the text has an exempt phrase in capitals, the keyword and an amount in the
\* window, and the result is 0
C16_Witness ==
    /\ Extracted
    /\ arg.exempt = "NDS NE OBLAGAETSYA, " /\ arg.keyword = "NDS"
    /\ arg.inside = " (20%) 202-83 rub."
    /\ result = Zero

\* no part of the text holds the keyword
KeywordFree ==
    /\ arg.keyword = ""
    /\ arg.inside # " 18% 10,00 i NDS 10% 5,00"
    /\ arg.beyond # " NDS 7,50"

\* the parts after the keyword whose only numbers are the parts of a date
DateInsideParts == {" po dogovoru ot 2017-06-05", " po dogovoru ot 05.06.2017"}

\* C17: the result is 0 for every text without the keyword, and for every
\* text in which the only numbers after the keyword are the parts of a date.
C17_NoAmountFromDate ==
    (Extracted /\ ~HasExemptPart) =>
        /\ KeywordFree => result = Zero
        /\ (arg.keyword # "" /\ arg.inside \in DateInsideParts /\ arg.beyond = "")
               => result = Zero

\* the value of the last numeric token of a part
LastTokenOf(part) ==
    CASE part = " (20%) 202-83 rub." -> Fin(202830)
      [] part = " 20 % - 21035.60 rublej" -> Fin(21035600)
      [] part = " 20% 1 000,50 iz nih 300.25" -> Fin(300250)
      [] part = " po dogovoru ot 05.06.2017" -> Fin(5060)
      [] part = " 18% 10,00 i NDS 10% 5,00" -> Fin(5000)
      [] part = " itogo 999.99" -> Fin(999990)
      [] part = " NDS 7,50" -> Fin(7500)
      [] OTHER -> Zero

\* the text from the first keyword on: the keyword part itself, or a keyword
\* inside the part that follows it, or a keyword after the filler
FirstKeywordIn ==
    IF arg.keyword # "" THEN "keyword"
    ELSE IF arg.inside = " 18% 10,00 i NDS 10% 5,00" THEN "inside"
    ELSE IF arg.beyond = " NDS 7,50" THEN "beyond"
    ELSE "none"

\* C18: without an exempt phrase the result is the value of the last token
\* inside the window after the first keyword, 0 when there is none; tokens
\* before the keyword and tokens beyond the window do not count.
C18_LastTokenInWindow ==
    (Extracted /\ ~HasExemptPart) =>
        result =
            CASE FirstKeywordIn = "none" -> Zero
              [] FirstKeywordIn = "beyond" -> Fin(7500)
              [] FirstKeywordIn = "inside" ->
                     IF arg.padding = "" /\ arg.beyond # "" THEN LastTokenOf(arg.beyond)
                     ELSE Fin(5000)
              [] FirstKeywordIn = "keyword" ->
                     IF arg.padding = "" /\ arg.beyond # "" THEN LastTokenOf(arg.beyond)
                     ELSE LastTokenOf(arg.inside)

\* a text with a token before the keyword, two tokens in the window and a
\* token beyond the window: the result is the second token in the window
C18_Witness ==
    /\ Extracted
    /\ arg.exempt = "" /\ arg.before # "" /\ arg.keyword = "NDS"
    /\ arg.inside = " 20% 1 000,50 iz nih 300.25"
    /\ arg.padding = Filler /\ arg.beyond = " itogo 999.99"
    /\ result = Fin(300250)

-----------------------------------------------------------------------------
(* findHeaderAndDataRows and buildHeaderIndex on their own (SpecHeader)    *)

\* rows above the header: a title, an empty row, an account number, a line
\* that names the period with the words 'data operacii'
PeriodRow == << Str("Data operacii s 01.01.2024 po 31.01.2024") >>

PreambleRows ==
    { << Str("Vypiska po schetu"), Undefined >>, << >>,
      << Num(40702810), Str("OOO Romashka") >>, PeriodRow }

MaxPreamble == 2

\* header rows: the two layouts, a header with several columns of one role,
\* a header without a date column, a header whose date column has a suffix
RepeatedHeader ==
    << Str(" DATA "), Str("Summa"), Str("Amount"), Str("Kontragent"), Str("Klient"),
       Str("NDS"), Str("Stavka") >>
UndatedHeader == << Str("Den"), Str("Summa"), Str("Kontragent") >>
SuffixedHeader ==
    << Str("Data operacii (MSK)"), Str("Summa po debetu"), Str("Summa po kreditu"),
       Str("Summa") >>

HeaderRows == { SberHeader, GenericHeader, RepeatedHeader, UndatedHeader, SuffixedHeader }

\* data rows: a row of values and a row with a cell that reads 'Date'
ValueRow == << Str("15.03.2024"), Num(1200000), Romashka >>
DateWordRow == << Str("Date"), Num(1000), Str("x") >>

DataRowLists == { << >>, << ValueRow >>, << ValueRow, DateWordRow >>, << DateWordRow, ValueRow >> }

HeaderArgs ==
    [preamble : SeqsUpTo(PreambleRows, MaxPreamble), header : HeaderRows, data : DataRowLists]

\* the rows of the sheet made of the parts
SheetOf(parts) == parts.preamble \o << parts.header >> \o parts.data

NoHeaderResult ==
    [headerRow |-> << >>, dataRows |-> << >>, headerMap |-> [r \in Roles |-> 0]]

InitHeader ==
    /\ error = null
    /\ operations = << >>
    /\ reads = << >>
    /\ now = Now0
    /\ tz = Moscow
    /\ last = Observed("none", "none", File("", "", << >>), FALSE, FALSE)
    /\ seen = NoneSeen
    /\ arg \in HeaderArgs
    /\ result = NoHeaderResult

\* const { headerRow, dataRows } = findHeaderAndDataRows(rows)
ApplyFindHeader ==
    /\ last.handler = "none"
    /\ \E r \in {findHeaderAndDataRows(SheetOf(arg))} :
           result' = [result EXCEPT !.headerRow = r.headerRow, !.dataRows = r.dataRows]
    /\ last' = [last EXCEPT !.handler = "findHeaderAndDataRows", !.outcome = "returned"]
    /\ UNCHANGED <<error, operations, reads, now, tz, seen, arg>>

\* const headerMap = buildHeaderIndex(headerRow)
ApplyBuildHeaderIndex ==
    /\ last.handler = "findHeaderAndDataRows"
    /\ result' = [result EXCEPT !.headerMap = buildHeaderIndex(result.headerRow)]
    /\ last' = [last EXCEPT !.handler = "buildHeaderIndex", !.outcome = "returned"]
    /\ UNCHANGED <<error, operations, reads, now, tz, seen, arg>>

NextHeader == ApplyFindHeader \/ ApplyBuildHeaderIndex

SpecHeader == InitHeader /\ [][NextHeader]_vars

\* the columns of the header found whose cell is a synonym of role r
ColumnsOf(r) ==
    { i \in 1..Len(result.headerRow) : r \in RolesOfKey(HeaderKey(result.headerRow[i])) }

\* C19: every role is mapped to the leftmost column whose header cell is a
\* synonym of the role; a role without such a column is not mapped.
C19_FirstMatchingColumn ==
    last.handler = "buildHeaderIndex" =>
        \A r \in Roles :
            /\ ColumnsOf(r) = {} => result.headerMap[r] = 0
            /\ ColumnsOf(r) # {} =>
                   /\ result.headerMap[r] \in ColumnsOf(r)
                   /\ \A i \in ColumnsOf(r) : result.headerMap[r] <= i

\* the rows that have a cell equal to 'data' or 'date' or containing 'data
\* provodki' or 'data operacii', in any letter case
NamesDate(row) ==
    row \in {PeriodRow, SberHeader, GenericHeader, RepeatedHeader, SuffixedHeader, DateWordRow}

\* the topmost row of the sheet that names the date, row 1 when there is none
TopmostDateRow ==
    LET sheet == SheetOf(arg)
        dated == { i \in 1..Len(sheet) : NamesDate(sheet[i]) }
    IN  IF dated = {} THEN 1 ELSE CHOOSE i \in dated : \A j \in dated : i <= j

\* C20: the header is the topmost row that names the date, row 1 when no row
\* does, and the data rows are the rows after it, in their order.
C20_TopmostDateRowIsHeader ==
    last.handler \in {"findHeaderAndDataRows", "buildHeaderIndex"} =>
        /\ result.headerRow = SheetOf(arg)[TopmostDateRow]
        /\ result.dataRows = SubSeq(SheetOf(arg), TopmostDateRow + 1, Len(SheetOf(arg)))

\* two preamble rows above a header in capitals with spaces around: the header
\* is the third row and the data rows are the two rows after it
C20_Witness ==
    /\ last.handler = "findHeaderAndDataRows"
    /\ Len(arg.preamble) = 2 /\ PeriodRow \notin { arg.preamble[i] : i \in 1..2 }
    /\ arg.header = RepeatedHeader /\ Len(arg.data) = 2
    /\ result.headerRow = RepeatedHeader /\ result.dataRows = arg.data

-----------------------------------------------------------------------------
(* lib/vat: validateOperation applied on its own (SpecValidate)            *)

\* the values of op.vat_rate tried (thousandths; those above 1 are multiples
\* of 0.1, which n / 100 divides exactly), and the non-finite and huge ones
ValidateRates ==
    { Fin(v) : v \in { 0 - 500, 0 - 1, 0, 1, 200, 1000, 1100, 1500, 20000,
                       100000, 101000, 150000 } }
    \cup { NaN, Inf(1), Inf(0 - 1), Big(1), Big(0 - 1) }

ValidateAmounts == { Fin(1200000), Fin(0 - 1200000), Zero, NaN }
ValidateVatAmounts == { Fin(240000), Fin(0 - 50000), Zero, NaN }
ValidateDates ==
    { IsoDate(DaysFromCivil(2024, 3, 15) * 1000), EmptyDate,
      IsoDate(DaysFromCivil(2030, 3, 15) * 1000) }
ValidateCounterparties == { "", "Romashka", "12345" }

\* the operations validateOperation is called with
ValidateArgs ==
    [ id : { "vypiska.xlsx-0" },
      date : ValidateDates,
      amount : ValidateAmounts,
      vat_rate : ValidateRates,
      vat_amount : ValidateVatAmounts,
      counterparty : ValidateCounterparties,
      source : { "vypiska.xlsx" },
      direction : { "input", "output" },
      errors : { << >> } ]

InitValidate ==
    /\ error = null
    /\ operations = << >>
    /\ reads = << >>
    /\ now = Now0
    /\ tz = Moscow
    /\ last = Observed("none", "none", File("", "", << >>), FALSE, FALSE)
    /\ seen = NoneSeen
    /\ arg \in ValidateArgs
    /\ result = [errors |-> << >>, op |-> arg]

\* const errors = validateOperation(op); result.op is op after the call
ApplyValidateOperation ==
    /\ last.handler = "none"
    /\ result' = validateOperation(arg, now, tz)
    /\ last' = [last EXCEPT !.handler = "validateOperation", !.outcome = "returned"]
    /\ UNCHANGED <<error, operations, reads, now, tz, seen, arg>>

SpecValidate == InitValidate /\ [][ApplyValidateOperation]_vars

Has(errors, message) == \E i \in 1..Len(errors) : errors[i] = message

\* op.vat_rate is a finite number within [0, 1]
RateInRange(rate) == rate.k = "fin" /\ rate.v >= 0 /\ rate.v <= 1000

\* C21: validateOperation reports the VAT-rate violation exactly for the
\* operations whose vat_rate is below 0, above 1 or not finite.
C21_RateViolationIffOutOfRange ==
    last.handler = "validateOperation" =>
        (Has(result.errors, ErrRate) <=> ~RateInRange(arg.vat_rate))

-----------------------------------------------------------------------------
(* The VAT rate of a row (checked under SpecParse)                         *)

\* the cell has a value: it is not empty and not blank
HasValue(cell) == TextOf(cell) # ""

\* the rate the three sources give in their order: the rate cell normalized,
\* else the percentage the text mentions, else 0
RateBySource(rateCell, purposeCell) ==
    IF HasValue(rateCell) THEN normalizeVatRate(rateCell)
    ELSE IF PercentMatch(TextOf(purposeCell), 1) # ""
    THEN normalizeVatRate(StrCell(PercentMatch(TextOf(purposeCell), 1)))
    ELSE Zero

\* C22: the vat_rate of a row is the normalized rate cell when that cell has a
\* value, else the percentage mentioned in the payment purpose, else 0; a rate
\* cell with a value is never replaced by a rate read from the text.
C22_RateFromColumnThenText ==
    OneSberRow =>
        operations[1].vat_rate = RateBySource(seen.rows[2][5], seen.rows[2][8])

-----------------------------------------------------------------------------
(* lib/vat: computeVatAmount applied on its own (SpecCompute)              *)

\* values of the third argument that give no VAT amount: absent, zero, not a
\* number, blank
AbsentVatCells == { Undefined, Num(0), NumCell(NaN), Str(""), Str("  ") }

ComputeArgs ==
    [ amount : { Fin(1200000), Fin(0 - 1200000), Fin(1000125), Fin(33330), Zero,
                 NaN, Inf(1), Inf(0 - 1) },
      vatRate : { Zero, Fin(200), Fin(100), Fin(180), Fin(1000), Fin(20000),
                  Fin(0 - 200), NaN },
      existing : AbsentVatCells \cup { Num(50000), Num(0 - 50000),
                                       Str("V t.ch. NDS 20% - 200.00") } ]

InitCompute ==
    /\ error = null
    /\ operations = << >>
    /\ reads = << >>
    /\ now = Now0
    /\ tz = Moscow
    /\ last = Observed("none", "none", File("", "", << >>), FALSE, FALSE)
    /\ seen = NoneSeen
    /\ arg \in ComputeArgs
    /\ result = NullNum

ApplyComputeVatAmount ==
    /\ last.handler = "none"
    /\ result' = computeVatAmount(arg.amount, arg.vatRate, arg.existing)
    /\ last' = [last EXCEPT !.handler = "computeVatAmount", !.outcome = "returned"]
    /\ UNCHANGED <<error, operations, reads, now, tz, seen, arg>>

SpecCompute == InitCompute /\ [][ApplyComputeVatAmount]_vars

\* C23: without an explicit and without a text-extracted VAT amount, a positive
\* rate gives |amount| x rate rounded to 2 decimals (1200 at 0.2 gives 240.00),
\* and a rate of 0 or a non-finite amount gives 0.
C23_FallbackAmountTimesRate ==
    (last.handler = "computeVatAmount" /\ arg.existing \in AbsentVatCells) =>
        /\ (arg.amount = Fin(1200000) /\ arg.vatRate = Fin(200)) => result = Fin(240000)
        /\ (Gt0(arg.vatRate) /\ isFinite(arg.amount))
               => result = MulRound2(abs(arg.amount), arg.vatRate)
        /\ (Eq0(arg.vatRate) \/ ~isFinite(arg.amount)) => result = Zero

-----------------------------------------------------------------------------
(* lib/vat: the functions that take a list of operations (SpecLists)       *)

\* an operation as the row callback builds it, before validateOperation
RawOperation(index, day, amount, vat_rate, vat_amount, direction) ==
    [id |-> "vypiska.xlsx-" \o IntToString(index),
     date |-> IsoDate(day * 1000),
     amount |-> amount,
     vat_rate |-> vat_rate,
     vat_amount |-> vat_amount,
     counterparty |-> "OOO Romashka",
     source |-> "vypiska.xlsx",
     direction |-> direction,
     errors |-> << >>]

\* operations to build lists from: both directions and two months, a rate
\* given in percent, a VAT amount with a fraction of a kopeck, a date in the
\* future, a VAT amount that is not a number, a negative VAT amount
ListOperations ==
    { RawOperation(0, DaysFromCivil(2024, 3, 15), Fin(1200000), Fin(200), Fin(240000), "input"),
      RawOperation(1, DaysFromCivil(2024, 4, 16), Fin(0 - 600000), Fin(20000), Fin(100000), "output"),
      RawOperation(2, DaysFromCivil(2024, 3, 17), Fin(500000), Zero, Fin(1004), "output"),
      RawOperation(3, DaysFromCivil(2030, 3, 15), Fin(900000), Fin(200), Fin(150000), "input"),
      RawOperation(4, DaysFromCivil(2024, 4, 18), Fin(700000), Zero, NaN, "input"),
      RawOperation(5, DaysFromCivil(2024, 3, 19), Fin(0 - 300000), Fin(100), Fin(0 - 30000), "output"),
      RawOperation(6, DaysFromCivil(2024, 3, 20), Fin(900000), Fin(200), Fin(180000), "output") }

MaxListLen == 2

InitLists ==
    /\ error = null
    /\ operations \in SeqsUpTo(ListOperations, MaxListLen)
    /\ reads = << >>
    /\ now = Now0
    /\ tz = Moscow
    /\ last = Observed("none", "none", File("", "", << >>), FALSE, FALSE)
    /\ seen = NoneSeen
    /\ arg = Undefined
    /\ result = NullNum

\* const errors = validateOperation(op); if (errors.length) op.errors = errors,
\* for every operation of the list
ValidateOperations ==
    /\ last.outcome = "none"
    /\ operations' =
           [i \in 1..Len(operations) |->
               LET Assigned(v) == [v.op EXCEPT !.errors = v.errors]
               IN  Assigned(validateOperation(operations[i], now, tz))]
    /\ last' = [last EXCEPT !.handler = "validateOperation", !.outcome = "validated"]
    /\ UNCHANGED <<error, reads, now, tz, seen, arg, result>>

\* calculateTotals(operations): filter and reduce read the operations
ApplyCalculateTotals ==
    /\ result' = calculateTotals(operations)
    /\ operations' = operations
    /\ last' = [last EXCEPT !.handler = "calculateTotals"]
    /\ UNCHANGED <<error, reads, now, tz, seen, arg>>

\* groupNetVatByMonth(operations): the loop reads the operations
ApplyGroupNetVatByMonth ==
    /\ result' = groupNetVatByMonth(operations, tz)
    /\ operations' = operations
    /\ last' = [last EXCEPT !.handler = "groupNetVatByMonth"]
    /\ UNCHANGED <<error, reads, now, tz, seen, arg>>

\* buildVatPayload(operations): the payload holds the array it was given
ApplyBuildVatPayload ==
    /\ \E payload \in {buildVatPayload(operations, now)} :
           /\ result' = payload
           /\ operations' = payload.operations
    /\ last' = [last EXCEPT !.handler = "buildVatPayload"]
    /\ UNCHANGED <<error, reads, now, tz, seen, arg>>

NextLists ==
    \/ ValidateOperations
    \/ ApplyCalculateTotals
    \/ ApplyGroupNetVatByMonth
    \/ ApplyBuildVatPayload

SpecLists == InitLists /\ [][NextLists]_vars

\* the fields validateOperation does not assign
SameButVat(a, b) ==
    /\ a.id = b.id /\ a.date = b.date /\ a.amount = b.amount
    /\ a.counterparty = b.counterparty /\ a.source = b.source
    /\ a.direction = b.direction

\* C24: validateOperation leaves id, date, amount, counterparty, source and
\* direction of the operation as they were; calculateTotals,
\* groupNetVatByMonth and buildVatPayload leave every operation unchanged.
C24_OnlyRateAndVatAssigned ==
    [][ /\ last'.handler = "validateOperation" =>
              /\ Len(operations') = Len(operations)
              /\ \A i \in 1..Len(operations) : SameButVat(operations'[i], operations[i])
        /\ last'.handler \in {"calculateTotals", "groupNetVatByMonth", "buildVatPayload"}
              => operations' = operations ]_vars

\* a validated list in which validation assigned a rate and a VAT amount, after
\* which the payload was built
C24_Witness ==
    /\ last.handler = "buildVatPayload" /\ last.outcome = "validated"
    /\ \E i, j \in 1..Len(operations) :
           /\ operations[i].id = "vypiska.xlsx-1" /\ operations[i].vat_rate = Fin(200)
           /\ operations[j].id = "vypiska.xlsx-4" /\ operations[j].vat_amount = Zero

\* C25: the totals of the payload buildVatPayload builds are calculateTotals
\* of the same list, whatever the list holds.
C25_PayloadTotalsAreCalculateTotals ==
    last.handler = "buildVatPayload" => result.totals = calculateTotals(operations)

-----------------------------------------------------------------------------
(* The ids of one parse pass (checked under SpecParse)                     *)

\* C26: the operations of one parse pass have pairwise distinct ids, also
\* when rows between them were skipped, and the source of each is the name of
\* the file, from which its id is derived.
C26_IdsDistinctWithinPass ==
    Parsed =>
        /\ \A i, j \in 1..Len(operations) :
               i # j => operations[i].id # operations[j].id
        /\ \A i \in 1..Len(operations) :
               /\ operations[i].source = last.file
               /\ \E index \in 0..Len(seen.rows) :
                      operations[i].id
                          = operations[i].source \o "-" \o IntToString(index)

\* a statement whose second data row is empty and was skipped between two
\* emitted rows
C26_Witness ==
    /\ Parsed
    /\ Len(seen.rows) = 4 /\ IsEmptyRow(seen.rows[3])
    /\ Len(operations) = 2
    /\ operations[1].id = "vypiska.xlsx-0" /\ operations[2].id = "vypiska.xlsx-2"

-----------------------------------------------------------------------------
(* The header found and the date column (checked under SpecHeader)         *)

\* findHeaderAndDataRows found a row with a cell that names the date
HeaderFoundByDate == FindHeaderIndex(SheetOf(arg), 1) # 0

\* C27: when the header row was selected because one of its cells matched a
\* date phrase, buildHeaderIndex on that row maps the role 'date' to a column.
C27_DateHeaderHasDateColumn ==
    (last.handler = "buildHeaderIndex" /\ HeaderFoundByDate)
        => result.headerMap["date"] # 0

-----------------------------------------------------------------------------
(* Monthly buckets against the totals (checked under SpecLists)            *)

\* the VAT amount is a whole number of kopecks
WholeKopecks(op) == op.vat_amount.k = "fin" /\ op.vat_amount.v % 10 = 0

\* the list has been validated, no operation has a violation and every VAT
\* amount is in whole kopecks
ValidInKopecks ==
    /\ last.outcome = "validated"
    /\ \A i \in 1..Len(operations) : IsValid(operations[i]) /\ WholeKopecks(operations[i])

RECURSIVE SumNetVat(_)
\* the sum of net_vat over the buckets
SumNetVat(buckets) ==
    IF buckets = << >> THEN Zero
    ELSE Add(SumNetVat(SubSeq(buckets, 1, Len(buckets) - 1)), buckets[Len(buckets)].net_vat)

-----------------------------------------------------------------------------
(* The error state under overlapping reads (checked under Spec)            *)

\* C29: the completion of a read selected earlier does not clear or overwrite
\* the rejection of the file selected after it: after a rejection, a step of
\* reader.onload or reader.onerror leaves the error as it is.
C29_ErrorOfLatestSelection ==
    [][ (/\ last.handler = "handleChange" /\ last.outcome = "rejected"
         /\ last'.handler \in {"onload", "onerror"})
            => error' = error ]_vars

-----------------------------------------------------------------------------
(* Signs of the totals and the summary (checked under SpecLists)           *)

\* n >= 0 (false for NaN)
NonNegative(n) == n.k # "nan" /\ n.v >= 0

\* C30: for a list whose violations were produced by validateOperation,
\* calculateTotals returns input_vat >= 0 and output_vat >= 0, and
\* getVatSummary of the totals returns an amount >= 0 with type 'refund'
\* exactly when net_vat < 0.
C30_TotalsAndSummaryNonNegative ==
    (last.handler = "calculateTotals" /\ last.outcome = "validated") =>
        /\ NonNegative(result.input_vat)
        /\ NonNegative(result.output_vat)
        /\ NonNegative(getVatSummary(result).amount)
        /\ getVatSummary(result).type = "refund" <=> Lt0(result.net_vat)

\* the totals of a validated list that holds an operation with a negative VAT
\* amount and whose net VAT is a refund
C30_Witness ==
    /\ last.handler = "calculateTotals" /\ last.outcome = "validated"
    /\ \E i \in 1..Len(operations) : Lt0(operations[i].vat_amount)
    /\ Lt0(result.net_vat)
    /\ getVatSummary(result) = [amount |-> abs(result.net_vat), type |-> "refund"]

=============================================================================
